---- MODULE Spec2Model ----
(***************************************************************************)
(* Model of cores/genchecks.py: the generator of riscv-formal check        *)
(* descriptors (.sby files) and of the makefile that sequences them.       *)
(*                                                                         *)
(* Text is modelled as sequences of one-character strings, so that name    *)
(* formatting, regular-expression matching, tokenization and sorting are   *)
(* computed the way the Python code computes them.                         *)
(***************************************************************************)
EXTENDS Integers, Sequences, FiniteSets, TLC

VARIABLES
    \* ---- state of one generator run (__main__) ----
    pc,            \* position of the run: start, insn, cons, makefile, done, aborted
    config,        \* Config: the parsed sections (read-only after parse_cfg)
    csrs,          \* isa_cfg.csrs
    custom_csrs,   \* isa_cfg.custom_csrs
    illegal_csrs,  \* isa_cfg.illegal_csrs
    csr_tests,     \* isa_cfg.csr_tests
    set_iter,      \* iteration orders this run's interpreter gives the two sets
    grp_idx,       \* index into solver_cfg.groups of the current group
    todo,          \* remaining iterations of the current group's loops
    hargs,         \* the shared parameter dictionary
    checks,        \* the local list `checks` of the running add_all_* function
    inst_checks,   \* result of add_all_check_insn
    cons_checks,   \* result of add_all_consistency_checks
    files,         \* descriptor files written so far: check name -> content
    writes,        \* number of times each descriptor file was opened for writing
    makefile,      \* the makefile: default target order and rules
    generated,     \* the count printed at the end of the run (None before)
    seen,          \* the check_insn/check_cons calls made so far (observation only)
    \* ---- application of one pure function to one drawn input ----
    fn,            \* which function is applied
    arg,           \* its input
    res,           \* its result
    fpc            \* ready, done

runVars == <<pc, config, csrs, custom_csrs, illegal_csrs, csr_tests, set_iter,
             grp_idx, todo, hargs, checks, inst_checks, cons_checks, files,
             writes, makefile, generated, seen>>
fnVars  == <<fn, arg, res, fpc>>
vars    == <<pc, config, csrs, custom_csrs, illegal_csrs, csr_tests, set_iter,
             grp_idx, todo, hargs, checks, inst_checks, cons_checks, files,
             writes, makefile, generated, seen,
             fn, arg, res, fpc>>

(***************************************************************************)
(* Text                                                                    *)
(***************************************************************************)

\* The characters the model uses, in code-point order (Python compares
\* strings by code point).
Ordered ==
    <<" ", "\"", "'", "*", "+", "-", ".",
      "0", "1", "2", "3", "4", "5", "6", "7", "8", "9", "=",
      "A", "B", "C", "D", "E", "F", "G", "H", "I", "J", "K", "L", "M",
      "N", "O", "P", "Q", "R", "S", "T", "U", "V", "W", "X", "Y", "Z",
      "_",
      "a", "b", "c", "d", "e", "f", "g", "h", "i", "j", "k", "l", "m",
      "n", "o", "p", "q", "r", "s", "t", "u", "v", "w", "x", "y", "z", "~">>

CharSet == {Ordered[i] : i \in 1..Len(Ordered)}

CharCode == [c \in CharSet |-> CHOOSE i \in 1..Len(Ordered) : Ordered[i] = c]

\* a < b for two texts, as Python's str.__lt__
RECURSIVE StrLess(_, _)
StrLess(a, b) ==
    IF b = <<>> THEN FALSE
    ELSE IF a = <<>> THEN TRUE
    ELSE IF a[1] = b[1] THEN StrLess(Tail(a), Tail(b))
    ELSE CharCode[a[1]] < CharCode[b[1]]

StrLeq(a, b) == a = b \/ StrLess(a, b)

StartsWith(s, p) == Len(p) <= Len(s) /\ SubSeq(s, 1, Len(p)) = p

\* `p in s` for texts
Contains(s, p) ==
    \E i \in 0..(Len(s) - Len(p)) : SubSeq(s, i + 1, i + Len(p)) = p

\* str.find: the lowest index (from 0) where p occurs in s, -1 when absent
Find(s, p) ==
    IF Contains(s, p)
    THEN CHOOSE i \in 0..(Len(s) - Len(p)) :
            /\ SubSeq(s, i + 1, i + Len(p)) = p
            /\ \A j \in 0..(i - 1) : SubSeq(s, j + 1, j + Len(p)) # p
    ELSE -1

RECURSIVE Flatten(_)
Flatten(ss) == IF ss = <<>> THEN <<>> ELSE Head(ss) \o Flatten(Tail(ss))

\* sorted(list, key=...) on a list of <<key, element>> pairs with text keys: a
\* stable sort, elements with equal keys keep the order they arrive in.  The
\* element at position k goes behind those of smaller key and those of equal
\* key that precede it.
SortedByKey(s) ==
    LET t == s \o <<>>
        n == Len(t)
        rank == [k \in 1..n |->
                    Cardinality({j \in 1..n :
                        \/ StrLess(t[j][1], t[k][1])
                        \/ (t[j][1] = t[k][1] /\ j < k)})] \o <<>>
    IN [i \in 1..n |-> t[CHOOSE k \in 1..n : rank[k] = i - 1]] \o <<>>

Digit == <<"0", "1", "2", "3", "4", "5", "6", "7", "8", "9",
           "A", "B", "C", "D", "E", "F">>

\* f"{n:d}"
RECURSIVE Dec(_)
Dec(n) == IF n < 10 THEN <<Digit[n + 1]>> ELSE Dec(n \div 10) \o <<Digit[(n % 10) + 1]>>

\* f"{n:X}" and f"{n:03X}"
RECURSIVE Hex(_)
Hex(n) == IF n < 16 THEN <<Digit[n + 1]>> ELSE Hex(n \div 16) \o <<Digit[(n % 16) + 1]>>

RECURSIVE ZeroPad(_, _)
ZeroPad(s, w) == IF Len(s) >= w THEN s ELSE ZeroPad(<<"0">> \o s, w)

Hex03(n) == ZeroPad(Hex(n), 3)

\* str.upper on one character
Upper == [c \in CharSet |->
    IF CharCode[c] >= CharCode["a"] /\ CharCode[c] <= CharCode["z"]
    THEN Ordered[CharCode[c] - CharCode["a"] + CharCode["A"]]
    ELSE c]

HexVal(c) == (CHOOSE i \in 1..16 : Digit[i] = Upper[c]) - 1

\* int(s, base=16) for a text of hexadecimal digits
RECURSIVE ParseHex(_)
ParseHex(s) ==
    IF s = <<>> THEN 0
    ELSE 16 * ParseHex(SubSeq(s, 1, Len(s) - 1)) + HexVal(s[Len(s)])

(***************************************************************************)
(* Regular expressions: the patterns of the configuration are literals,    *)
(* `.` and `x*` (so `.*`); re.fullmatch and re.match decide them as here.  *)
(***************************************************************************)
CharMatches(p, c) == p = "." \/ p = c

RECURSIVE MatchHere(_, _)
MatchHere(p, s) ==
    IF p = <<>> THEN s = <<>>
    ELSE IF Len(p) >= 2 /\ p[2] = "*"
         THEN \/ MatchHere(SubSeq(p, 3, Len(p)), s)
              \/ (s # <<>> /\ CharMatches(p[1], s[1]) /\ MatchHere(p, Tail(s)))
         ELSE s # <<>> /\ CharMatches(p[1], s[1]) /\ MatchHere(Tail(p), Tail(s))

\* re.match(p, s) is not None: p matches a prefix of s
re_match(p, s) == \E k \in 0..Len(s) : MatchHere(p, SubSeq(s, 1, k))

\* a variant of re.fullmatch that is content with a matching prefix
re_fullmatch_prefix(p, s) == re_match(p, s)

\* re.fullmatch(p, s) is not None
re_fullmatch(p, s) == MatchHere(p, s)

(***************************************************************************)
(* Optional values: None is the empty sequence, a value v is <<v>>.         *)
(***************************************************************************)
None == <<>>
Some(v) == <<v>>

(***************************************************************************)
(* get_depth_cfg and test_disabled                                         *)
(***************************************************************************)

\* A line of the `depth` section after line.strip().split(): <<>> for a blank
\* line, else <<pattern, int, ...>>.  The loop keeps the integers of the last
\* line whose pattern full-matches one of `patterns`.
RECURSIVE depth_scan(_, _, _)
depth_scan(lines, patterns, ret) ==
    IF lines = <<>> THEN ret
    ELSE LET line == Head(lines) IN
         depth_scan(Tail(lines), patterns,
            IF Len(line) = 0 THEN ret
            ELSE IF \E i \in 1..Len(patterns) : re_fullmatch(line[1], patterns[i])
                 THEN Some(Tail(line))
                 ELSE ret)

\* the loop of a variant that returns at the first matching line
RECURSIVE depth_scan_first(_, _)
depth_scan_first(lines, patterns) ==
    IF lines = <<>> THEN None
    ELSE LET line == Head(lines) IN
         IF Len(line) > 0 /\ \E i \in 1..Len(patterns) : re_fullmatch(line[1], patterns[i])
         THEN Some(Tail(line))
         ELSE depth_scan_first(Tail(lines), patterns)

get_depth_cfg_first(cfg, patterns) == depth_scan_first(cfg.depth, patterns)

get_depth_cfg(cfg, patterns) == depth_scan(cfg.depth, patterns, None)

\* A line of `filter-checks` after split(): <<>> or <<sign, pattern>>.  The
\* result is "disabled" (True), "enabled" (False) or "AssertionError".
RECURSIVE filter_scan(_, _)
filter_scan(lines, check) ==
    IF lines = <<>> THEN "enabled"
    ELSE LET line == Head(lines) IN
         IF Len(line) = 0 THEN filter_scan(Tail(lines), check)
         ELSE IF ~(Len(line) = 2 /\ line[1] \in {"-", "+"}) THEN "AssertionError"
         ELSE IF re_match(line[2], check)
              THEN (IF line[1] = "-" THEN "disabled" ELSE "enabled")
              ELSE filter_scan(Tail(lines), check)

\* the loop of a variant in which a later matching line overrides
RECURSIVE filter_scan_last(_, _, _)
filter_scan_last(lines, check, ret) ==
    IF lines = <<>> THEN ret
    ELSE LET line == Head(lines) IN
         IF Len(line) = 0 THEN filter_scan_last(Tail(lines), check, ret)
         ELSE IF ~(Len(line) = 2 /\ line[1] \in {"-", "+"}) THEN "AssertionError"
         ELSE filter_scan_last(Tail(lines), check,
                IF re_match(line[2], check)
                THEN (IF line[1] = "-" THEN "disabled" ELSE "enabled")
                ELSE ret)

test_disabled_last(cfg, check) == filter_scan_last(cfg.filter_checks, check, "enabled")

test_disabled(cfg, check) == filter_scan(cfg.filter_checks, check)

(***************************************************************************)
(* ISAConfig.add_csr_tests: re.findall(r'((?:\S*?"[^"]*")+|\S+)', test_str) *)
(***************************************************************************)
IsSpace(c) == c = " "

Min(S) == CHOOSE x \in S : \A y \in S : x <= y
Max(S) == CHOOSE x \in S : \A y \in S : x >= y

\* One repetition of \S*?"[^"]*" from index i: the index of its closing quote,
\* 0 when it does not match.  The lazy \S*? stops at the first quote, which
\* only non-blank characters may precede; [^"]* runs to the next quote.
QuotedPartEnd(s, i) ==
    LET opens == {j \in i..Len(s) : s[j] = "\""} IN
    IF opens = {} THEN 0
    ELSE LET q1 == Min(opens)
             closes == {j \in (q1 + 1)..Len(s) : s[j] = "\""}
         IN IF \E k \in i..(q1 - 1) : IsSpace(s[k]) THEN 0
            ELSE IF closes = {} THEN 0
            ELSE Min(closes)

\* (?: ... )+ is greedy: as many repetitions as match
RECURSIVE QuotedRunEnd(_, _)
QuotedRunEnd(s, i) ==
    LET e == QuotedPartEnd(s, i) IN
    IF e = 0 THEN 0
    ELSE LET more == QuotedRunEnd(s, e + 1) IN IF more = 0 THEN e ELSE more

\* \S+ from index i (s[i] is not blank): the end of the run of non-blanks
NonSpaceEnd(s, i) ==
    Max({j \in i..Len(s) : \A k \in i..j : ~IsSpace(s[k])})

RECURSIVE findall_tests(_, _)
findall_tests(s, i) ==
    IF i > Len(s) THEN <<>>
    ELSE LET q == QuotedRunEnd(s, i) IN
         IF q > 0 THEN <<SubSeq(s, i, q)>> \o findall_tests(s, q + 1)
         ELSE IF ~IsSpace(s[i])
              THEN <<SubSeq(s, i, NonSpaceEnd(s, i))>>
                     \o findall_tests(s, NonSpaceEnd(s, i) + 1)
              ELSE findall_tests(s, i + 1)

\* a variant that splits on blanks everywhere: test_str.split()
RECURSIVE split_blank(_, _)
split_blank(s, i) ==
    IF i > Len(s) THEN <<>>
    ELSE IF ~IsSpace(s[i])
         THEN <<SubSeq(s, i, NonSpaceEnd(s, i))>> \o split_blank(s, NonSpaceEnd(s, i) + 1)
         ELSE split_blank(s, i + 1)

add_csr_tests_split(test_str) == split_blank(test_str, 1)

\* the list stored in csr_tests[csr_name]
add_csr_tests(test_str) == findall_tests(test_str, 1)

(***************************************************************************)
(* Texts used by the code and by the drawn inputs                          *)
(***************************************************************************)
t_insn   == <<"i", "n", "s", "n">>
t_csrw   == <<"c", "s", "r", "w">>
t_csrc   == <<"c", "s", "r", "c">>
t_csr_ill == <<"c", "s", "r", "_", "i", "l", "l">>
t_add    == <<"a", "d", "d">>
t_sub    == <<"s", "u", "b">>
t_foo_bar == <<"f", "o", "o", "_", "b", "a", "r">>
t_foo_baz == <<"f", "o", "o", "_", "b", "a", "z">>
t_foo_any == <<"f", "o", "o", ".", "*">>
t_oo_bar  == <<"o", "o", "_", "b", "a", "r">>
t_insn_any == <<"i", "n", "s", "n", ".", "*">>
t_insn_add == <<"i", "n", "s", "n", "_", "a", "d", "d">>
t_insn_sub_ch0 == <<"i", "n", "s", "n", "_", "s", "u", "b", "_", "c", "h", "0">>
t_const_mask ==
    <<"c", "o", "n", "s", "t", "=", "\"", "3", "2", "'", "h", " ", "0", "\"",
      "_", "m", "a", "s", "k", "=", "\"", "3", "2", "'", "h", " ",
      "d", "e", "a", "d", "_", "b", "e", "e", "f", "\"">>
t_const_plain == <<"c", "o", "n", "s", "t", "=", "\"", "3", "2", "'", "h", " ", "0", "\"">>
t_two_tests == <<"a", "n", "y", " ", "c", "o", "n", "s", "t", "=", "\"", "1", " ", "2", "\"">>

us(a, b) == a \o <<"_">> \o b

\* f"_ch{chanidx:d}" appended to a name
with_ch(name, chanidx) == name \o <<"_", "c", "h">> \o Dec(chanidx)

\* pf = "" if grp is None else grp+"_"   (a group is None or <<name>>)
prefix(grp) == IF grp = None THEN <<>> ELSE grp[1] \o <<"_">>

\* the candidate names check_insn hands to get_depth_cfg for the insn and
\* csrw kinds (kind is "insn" or "csrw")
insn_patterns(pf, kind, insn, chanidx) ==
    << pf \o kind,
       with_ch(pf \o kind, chanidx),
       pf \o us(kind, insn),
       with_ch(pf \o us(kind, insn), chanidx) >>

(***************************************************************************)
(* Application of one pure function to one drawn input                     *)
(***************************************************************************)
MaxRules  == 2   \* longest drawn `depth` / `filter-checks` section
MaxTokLen == 6   \* longest drawn test string over TokChars

SeqsUpTo(S, n) == UNION {[1..k -> S] : k \in 0..n}

DepthLines ==
    { <<>>, <<t_insn_any, 3, 4>>, <<t_insn_add, 5, 6>>, <<t_insn_sub_ch0, 7>>,
      <<t_insn, 8>> }

DepthPatterns ==
    { insn_patterns(<<>>, t_insn, t_add, 0), insn_patterns(<<>>, t_insn, t_sub, 0),
      insn_patterns(<<>>, t_csrw, t_add, 0) }

FilterLines ==
    { <<>>, <<"+", t_foo_any>>, <<"-", t_foo_any>>, <<"-", t_foo_bar>>,
      <<"+", t_foo_bar>>, <<"-", t_oo_bar>>, <<"!", t_foo_bar>> }

FilterChecks == { t_foo_bar, t_foo_baz, with_ch(t_foo_bar, 0), t_add }

TokChars == {"k", "\"", " "}

TestStrings ==
    SeqsUpTo(TokChars, MaxTokLen) \cup {t_const_mask, t_const_plain, t_two_tests}

RunIdle ==
    /\ pc = "idle" /\ config = <<>> /\ csrs = {} /\ custom_csrs = {}
    /\ illegal_csrs = {} /\ csr_tests = <<>> /\ set_iter = <<>> /\ grp_idx = 0
    /\ todo = <<>> /\ hargs = <<>> /\ checks = <<>> /\ inst_checks = {}
    /\ cons_checks = {} /\ files = <<>> /\ writes = <<>> /\ makefile = <<>>
    /\ generated = <<>> /\ seen = {}

FnIdle == fn = "none" /\ arg = <<>> /\ res = <<>> /\ fpc = "idle"

FnInit ==
    /\ RunIdle
    /\ fpc = "ready"
    /\ res = <<>>
    /\ \/ /\ fn = "get_depth_cfg"
          /\ arg \in [config : [depth : SeqsUpTo(DepthLines, MaxRules)],
                      patterns : DepthPatterns]
       \/ /\ fn = "test_disabled"
          /\ arg \in [config : [filter_checks : SeqsUpTo(FilterLines, MaxRules)],
                      check : FilterChecks]
       \/ /\ fn = "add_csr_tests"
          /\ arg \in [test_str : TestStrings]

ApplyDepth ==
    /\ fpc = "ready" /\ fn = "get_depth_cfg"
    /\ res' = get_depth_cfg(arg.config, arg.patterns)
    /\ fpc' = "done"
    /\ UNCHANGED <<fn, arg>> /\ UNCHANGED runVars

ApplyFilter ==
    /\ fpc = "ready" /\ fn = "test_disabled"
    /\ res' = test_disabled(arg.config, arg.check)
    /\ fpc' = "done"
    /\ UNCHANGED <<fn, arg>> /\ UNCHANGED runVars

ApplyTests ==
    /\ fpc = "ready" /\ fn = "add_csr_tests"
    /\ res' = add_csr_tests(arg.test_str)
    /\ fpc' = "done"
    /\ UNCHANGED <<fn, arg>> /\ UNCHANGED runVars

FnNext == ApplyDepth \/ ApplyFilter \/ ApplyTests

FnSpec == FnInit /\ [][FnNext]_vars

(***************************************************************************)
(* Properties of the pure functions                                        *)
(***************************************************************************)
DepthDone  == fpc = "done" /\ fn = "get_depth_cfg"
FilterDone == fpc = "done" /\ fn = "test_disabled"
TestsDone  == fpc = "done" /\ fn = "add_csr_tests"

\* the lines of a depth section whose pattern full-matches a candidate name
DepthMatching(lines, patterns) ==
    {i \in 1..Len(lines) :
        /\ Len(lines[i]) > 0
        /\ \E j \in 1..Len(patterns) : MatchHere(lines[i][1], patterns[j])}

ExampleDepth == << <<t_insn_any, 3, 4>>, <<t_insn_add, 5, 6>> >>

\* C2: get_depth_cfg returns the integers of the LAST line of the depth
\* section, in declaration order, whose pattern full-matches one of the
\* candidate names (None when no line does); with `insn.* 3 4` declared before
\* `insn_add 5 6`, insn_add_ch0 resolves to [5,6] and insn_sub_ch0 to [3,4].
C2_LastMatchWins ==
    DepthDone =>
        LET lines == arg.config.depth
            m == DepthMatching(lines, arg.patterns)
        IN /\ m = {} => res = None
           /\ m # {} => res = Some(Tail(lines[Max(m)]))
           /\ lines = ExampleDepth =>
                /\ arg.patterns = insn_patterns(<<>>, t_insn, t_add, 0) => res = Some(<<5, 6>>)
                /\ arg.patterns = insn_patterns(<<>>, t_insn, t_sub, 0) => res = Some(<<3, 4>>)

\* an earlier rule matches and a later rule matches too: the later one decides
C2_Witness ==
    /\ DepthDone
    /\ arg.config.depth = ExampleDepth
    /\ arg.patterns = insn_patterns(<<>>, t_insn, t_add, 0)
    /\ res = Some(<<5, 6>>)

WellFormedFilter(line) == Len(line) = 2 /\ line[1] \in {"-", "+"}

\* the non-blank lines at which the scan of test_disabled stops: a malformed
\* line, or a line whose pattern matches a prefix of the check name
FilterStops(lines, check) ==
    {i \in 1..Len(lines) :
        /\ Len(lines[i]) > 0
        /\ (WellFormedFilter(lines[i]) => re_match(lines[i][2], check))}

\* C3: test_disabled scans the filter-checks lines top to bottom; the FIRST
\* line whose pattern matches the check name decides (disabled iff its sign is
\* `-`), no line after it is consulted (not even a malformed one), and a
\* check no line matches is enabled.
C3_FirstMatchWins ==
    FilterDone =>
        LET lines == arg.config.filter_checks
            stops == FilterStops(lines, arg.check)
        IN /\ stops = {} => res = "enabled"
           /\ stops # {} =>
                LET line == lines[Min(stops)] IN
                IF WellFormedFilter(line)
                THEN res = (IF line[1] = "-" THEN "disabled" ELSE "enabled")
                ELSE res = "AssertionError"

\* two lines match and disagree; the first one decided
C3_Witness ==
    /\ FilterDone
    /\ arg.config.filter_checks = << <<"-", t_foo_any>>, <<"+", t_foo_bar>> >>
    /\ arg.check = t_foo_bar
    /\ res = "disabled"

ExampleFilter == << <<"+", t_foo_any>>, <<"-", t_foo_bar>> >>

\* C4 as stated: with the lines [(+, foo.*), (-, foo_bar)] the check foo_bar
\* is excluded (disabled) and the check foo_baz is included (enabled).
C4_AsStated ==
    (FilterDone /\ arg.config.filter_checks = ExampleFilter) =>
        /\ arg.check = t_foo_bar => res = "disabled"
        /\ arg.check = t_foo_baz => res = "enabled"

\* C4 amended: with the lines [(+, foo.*), (-, foo_bar)] the first line
\* matches both names, so foo_bar and foo_baz are both included (enabled).
C4_BothIncluded ==
    (FilterDone /\ arg.config.filter_checks = ExampleFilter) =>
        /\ arg.check = t_foo_bar => res = "enabled"
        /\ arg.check = t_foo_baz => res = "enabled"

C4_Witness ==
    /\ FilterDone
    /\ arg.config.filter_checks = ExampleFilter
    /\ arg.check = t_foo_bar
    /\ res = "enabled"

\* s[i..] is one or more parts key="value" joined without blanks: a key has
\* neither blanks nor quotes, a value has no quotes
RECURSIVE IsQuotedParts(_, _)
IsQuotedParts(s, i) ==
    \E q1 \in i..Len(s) : \E q2 \in (q1 + 1)..Len(s) :
        /\ s[q1] = "\"" /\ s[q2] = "\""
        /\ \A k \in i..(q1 - 1) : s[k] # "\"" /\ ~IsSpace(s[k])
        /\ \A k \in (q1 + 1)..(q2 - 1) : s[k] # "\""
        /\ (q2 = Len(s) \/ IsQuotedParts(s, q2 + 1))

\* C9: a test string made of one or more key="quoted value" parts joined
\* without whitespace yields exactly one test descriptor, equal to the input
\* (blanks inside the quotes included).
C9_QuotedOneToken ==
    (TestsDone /\ IsQuotedParts(arg.test_str, 1)) => res = <<arg.test_str>>

\* the example of the specification: two quoted parts, each holding a blank
C9_Witness ==
    /\ TestsDone
    /\ arg.test_str = t_const_mask
    /\ res = <<t_const_mask>>

(***************************************************************************)
(* The generator run: configuration                                        *)
(***************************************************************************)
t_1_12 == <<"1", ".", "1", "2">>

\* dictionary update d[k] = v
SetKey(d, k, v) == [x \in (DOMAIN d) \cup {k} |-> IF x = k THEN v ELSE d[x]]

\* extract_options: the derived fields
xlen(cfg)  == IF Contains(cfg.isa, <<"6", "4">>) THEN 64 ELSE 32
compr(cfg) == Contains(cfg.isa, <<"c">>)

\* solver_cfg.groups: [None] extended by the lines of the `groups` section
groups(cfg) == <<None>> \o [i \in 1..Len(cfg.groups) |-> Some(cfg.groups[i])]

\* mask_bits(test, bits, mask_len, invert): the mask is kept as its set of
\* one-bits; '{:0{mask_len}b}' prints it most significant bit first
mask_bits(test, bits, mask_len, invert) ==
    test \o <<"_", "m", "a", "s", "k", "=">> \o (IF invert THEN <<"~">> ELSE <<>>) \o Dec(mask_len) \o <<"'", "b">>
         \o [i \in 1..mask_len |-> IF (mask_len - i) \in bits THEN "1" ELSE "0"]

\* str.split(maxsplit=1): <<first token, rest>>, or <<token>>, or <<>>
split1_from(s, b, e) ==
    IF \A i \in (e + 1)..Len(s) : IsSpace(s[i]) THEN <<SubSeq(s, b, e)>>
    ELSE <<SubSeq(s, b, e),
           SubSeq(s, Min({i \in (e + 1)..Len(s) : ~IsSpace(s[i])}), Len(s))>>

split1_at(s, b) == split1_from(s, b, NonSpaceEnd(s, b))

split1(s) ==
    IF \A i \in 1..Len(s) : IsSpace(s[i]) THEN <<>>
    ELSE split1_at(s, Min({i \in 1..Len(s) : ~IsSpace(s[i])}))

\* the fixed catalog of CSR specification 1.12: name -> tests (<<>> for None)
spec_csrs_base(cfg) ==
    LET x == xlen(cfg)
        fixed == {
          <<<<"m", "v", "e", "n", "d", "o", "r", "i", "d">>, <<<<"c", "o", "n", "s", "t">>>>>>, <<<<"m", "a", "r", "c", "h", "i", "d">>, <<<<"c", "o", "n", "s", "t">>>>>>,
          <<<<"m", "i", "m", "p", "i", "d">>, <<<<"c", "o", "n", "s", "t">>>>>>, <<<<"m", "h", "a", "r", "t", "i", "d">>, <<<<"c", "o", "n", "s", "t">>>>>>,
          <<<<"m", "c", "o", "n", "f", "i", "g", "p", "t", "r">>, <<<<"c", "o", "n", "s", "t">>>>>>,
          <<<<"m", "s", "t", "a", "t", "u", "s">>, <<mask_bits(<<"z", "e", "r", "o">>,
                ({0, 2, 4} \cup (23..30)) \cup (IF x = 64 THEN {31} \cup (38..62) ELSE {}),
                x, FALSE)>>>>,
          <<<<"m", "i", "s", "a">>, <<mask_bits(<<"z", "e", "r", "o">>,
                {6, 10, 11, 14, 17, 19, 22, 24, 25} \cup (26..(x - 3)), x, FALSE)>>>>,
          <<<<"m", "i", "e">>, <<>>>>, <<<<"m", "t", "v", "e", "c">>, <<>>>>, <<<<"m", "s", "c", "r", "a", "t", "c", "h">>, <<<<"a", "n", "y">>>>>>,
          <<<<"m", "e", "p", "c">>, <<>>>>, <<<<"m", "c", "a", "u", "s", "e">>, <<>>>>, <<<<"m", "t", "v", "a", "l">>, <<>>>>, <<<<"m", "i", "p">>, <<>>>>,
          <<<<"m", "c", "y", "c", "l", "e">>, <<<<"i", "n", "c">>>>>>, <<<<"m", "i", "n", "s", "t", "r", "e", "t">>, <<<<"i", "n", "c">>>>>> }
        hpm == {<<<<"m", "h", "p", "m", "c", "o", "u", "n", "t", "e", "r">> \o Dec(i), <<>>>> : i \in 3..31}
                 \cup {<<<<"m", "h", "p", "m", "e", "v", "e", "n", "t">> \o Dec(i), <<>>>> : i \in 3..31}
        all == fixed \cup hpm
    IN [n \in {e[1] : e \in all} |-> (CHOOSE e \in all : e[1] = n)[2]]

\* restricted_csrs: name, required substring of the isa, address, tests
restricted_csrs(cfg) ==
    << [name |-> <<"m", "e", "d", "e", "l", "e", "g">>,    req |-> <<"s">>,  addr |-> <<"3", "0", "2">>, tests |-> <<>>],
       [name |-> <<"m", "i", "d", "e", "l", "e", "g">>,    req |-> <<"s">>,  addr |-> <<"3", "0", "3">>, tests |-> <<>>],
       [name |-> <<"m", "c", "o", "u", "n", "t", "e", "r", "e", "n">>, req |-> <<"u">>,  addr |-> <<"3", "0", "6">>, tests |-> <<>>],
       [name |-> <<"m", "s", "t", "a", "t", "u", "s", "h">>,   req |-> <<"3", "2">>, addr |-> <<"3", "1", "0">>,
            tests |-> <<mask_bits(<<"z", "e", "r", "o">>, {4, 5}, xlen(cfg), TRUE)>>],
       [name |-> <<"m", "t", "i", "n", "s", "t">>,     req |-> <<"h">>,  addr |-> <<"3", "4", "A">>, tests |-> <<>>],
       [name |-> <<"m", "t", "v", "a", "l", "2">>,     req |-> <<"h">>,  addr |-> <<"3", "4", "B">>, tests |-> <<>>],
       [name |-> <<"m", "e", "n", "v", "c", "f", "g">>,    req |-> <<"u">>,  addr |-> <<"3", "0", "A">>, tests |-> <<>>],
       [name |-> <<"m", "e", "n", "v", "c", "f", "g", "h">>,   req |-> <<"u">>,  addr |-> <<"3", "1", "A">>, tests |-> <<>>] >>

\* a variant of the loop over restricted_csrs that adds every entry to the
\* legal catalog, whatever the isa
restricted_is_legal_always(cfg, r) == TRUE

\* `if data[0] in isa_cfg.isa`
restricted_is_legal(cfg, r) == Contains(cfg.isa, r.req)

\* The isa_cfg collections as one record.  ISAConfig() starts them empty.
EmptyIsa == [csrs |-> {}, custom_csrs |-> {}, illegal_csrs |-> {}, csr_tests |-> <<>>,
             error |-> FALSE]

\* the `if isa_cfg.csr_spec == "1.12"` block
add_spec_csrs(cfg, isa0) ==
    IF cfg.csr_spec # t_1_12 THEN isa0
    ELSE
    LET table == restricted_csrs(cfg)
        legal == {i \in 1..Len(table) : restricted_is_legal(cfg, table[i])}
        base  == spec_csrs_base(cfg)
        names == (DOMAIN base) \cup {table[i].name : i \in legal}
        tests(n) == IF \E i \in legal : table[i].name = n
                    THEN table[CHOOSE i \in legal : table[i].name = n].tests
                    ELSE base[n]
        tested == {n \in names : tests(n) # <<>>}
    IN [isa0 EXCEPT
          !.csrs = @ \cup names,
          !.illegal_csrs = @ \cup {<<table[i].addr, <<"m">>, <<"r", "w">>>> :
                                      i \in (1..Len(table)) \ legal},
          !.csr_tests = [n \in (DOMAIN @) \cup tested |->
                            IF n \in tested THEN tests(n) ELSE @[n]]]

\* ISAConfig.add_csr: <<isa record, name>>
add_csr_parts(isa0, parts) ==
    IF Len(parts) = 2
    THEN << [isa0 EXCEPT !.csr_tests = SetKey(@, parts[1], add_csr_tests(parts[2])),
                         !.csrs = @ \cup {parts[1]}], parts[1] >>
    ELSE << [isa0 EXCEPT !.csrs = @ \cup {Flatten(parts)}], Flatten(parts) >>

add_csr(isa0, csr_str) == add_csr_parts(isa0, split1(csr_str))

\* the loop over config["csrs"]
RECURSIVE add_csrs_lines(_, _)
add_csrs_lines(lines, isa0) ==
    IF lines = <<>> THEN isa0
    ELSE add_csrs_lines(Tail(lines),
            IF Head(lines) # <<>> THEN add_csr(isa0, Head(lines))[1] ELSE isa0)

\* isa_cfg.custom_csrs.add((name, int(addr, base=16), levels)), r = add_csr's
\* result
add_custom_csr(r, addr, levels) ==
    [r[1] EXCEPT !.custom_csrs = @ \cup {<<r[2], ParseHex(addr), levels>>}]

\* one line `<hex address> <levels> <csr> [tests]`, split off word by word
add_custom_split(isa0, p1, p2) ==
    IF Len(p2) < 2 THEN isa0
    ELSE add_custom_csr(add_csr(isa0, p2[2]), p1[1], p2[1])

add_custom_line(isa0, p1) ==
    add_custom_split(isa0, p1, IF Len(p1) = 2 THEN split1(p1[2]) ELSE <<>>)

\* the loop over config["custom_csrs"]
RECURSIVE add_custom_lines(_, _)
add_custom_lines(lines, isa0) ==
    IF lines = <<>> THEN isa0
    ELSE add_custom_lines(Tail(lines), add_custom_line(isa0, split1(Head(lines))))

\* The loop over config["illegal_csrs"].  A line with a wrong token count
\* fails the assertion: the loop ends there with `error` set.
RECURSIVE add_illegal_lines(_, _)
add_illegal_line(lines, isa0, line) ==
    IF Len(line) = 0 THEN add_illegal_lines(Tail(lines), isa0)
    ELSE IF Len(line) # 3 THEN [isa0 EXCEPT !.error = TRUE]
    ELSE add_illegal_lines(Tail(lines), [isa0 EXCEPT !.illegal_csrs = @ \cup {line}])

add_illegal_lines(lines, isa0) ==
    IF lines = <<>> THEN isa0
    ELSE add_illegal_line(lines, isa0, split_blank(Head(lines), 1))

add_all_csrs(cfg) ==
    add_illegal_lines(cfg.illegal_csrs,
        add_custom_lines(cfg.custom_csrs,
            add_csrs_lines(cfg.csrs, add_spec_csrs(cfg, EmptyIsa))))

(***************************************************************************)
(* Rendering                                                               *)
(***************************************************************************)

\* init_hargs
init_hargs(cfg) ==
    LET base == [basedir |-> "basedir", core |-> "corename", nret |-> cfg.nret,
                 xlen |-> xlen(cfg), ilen |-> 32, buslen |-> 32, nbus |-> 1,
                 append |-> 0, mode |-> cfg.mode,
                 engine |-> "smtbmc boolector", ilang_file |-> "corename-hier.il"]
    IN IF cfg.cover # <<>> THEN SetKey(base, "cover", cfg.cover) ELSE base

\* a set as a list, in some order
RECURSIVE SetToSeq(_)
SetToSeq(S) ==
    IF S = {} THEN <<>>
    ELSE LET x == CHOOSE x \in S : TRUE IN <<x>> \o SetToSeq(S \ {x})

\* sorted(S) for a set of texts
sorted(S) ==
    LET l == SetToSeq(S)
        s == SortedByKey([i \in 1..Len(l) |-> <<l[i], 0>>])
    IN [i \in 1..Len(s) |-> s[i][1]]

\* a variant that iterates the set as it comes
unsorted(S) == SetToSeq(S)

upper(s) == [i \in 1..Len(s) |-> Upper[s[i]]]

\* `for csr in sorted(isa_cfg.csrs): print(RISCV_FORMAL_CSR_{csr.upper()})`
csr_defines(S) == LET s == sorted(S) IN [i \in 1..Len(s) |-> upper(s[i])]

Macros  == <<"inputs", "wires", "conn", "channel", "signals", "outputs", "indices">>
Signals == <<"rmask", "wmask", "rdata", "wdata">>
Levels  == <<"m", "s", "u">>

\* a variant that prints the address at every privilege level
custom_index_always(level, addr, levels) == Hex03(addr)

\* the value of one index macro: the address at the levels the CSR names,
\* else 0xfff; printed as {index:03X}
custom_index(level, addr, levels) ==
    IF Contains(levels, <<level>>) THEN Hex03(addr) ELSE Hex03(4095)

\* print_custom_csrs: the macro lines, in print order.  `iter` is the order in
\* which this run iterates the set isa_cfg.custom_csrs.
print_custom_csrs(iter) ==
    Flatten([m \in 1..Len(Macros) |->
        Flatten([k \in 1..Len(iter) |->
            IF Macros[m] = "indices"
            THEN [l \in 1..Len(Levels) |->
                    [macro |-> "indices", csr |-> iter[k][1], part |-> Levels[l],
                     index |-> custom_index(Levels[l], iter[k][2], iter[k][3])]]
            ELSE [g \in 1..Len(Signals) |->
                    [macro |-> Macros[m], csr |-> iter[k][1], part |-> Signals[g],
                     index |-> <<>>]]])])

(***************************************************************************)
(* hfmt                                                                    *)
(***************************************************************************)

\* [a-zA-Z0-9_]
WordChar(c) == c \in CharSet /\ c \notin {" ", "\"", "'", "*", "+", "-", ".", "=", "~"}

\* stops: the positions behind i that hold no word character
hfmt_token_end(line, i, stops) ==
    IF stops # {} /\ Min(stops) > i + 1 /\ line[Min(stops)] = "@" THEN Min(stops) ELSE 0

\* the end of the match of @([a-zA-Z0-9_]+)@ that begins at position i of the
\* line, 0 when there is none
TokenEnd(line, i) ==
    IF line[i] # "@" THEN 0
    ELSE hfmt_token_end(line, i, {j \in (i + 1)..Len(line) : ~WordChar(line[j])})

\* the keys hargs can hold, as texts
HargNames ==
    [basedir |-> <<"b", "a", "s", "e", "d", "i", "r">>, core |-> <<"c", "o", "r", "e">>, nret |-> <<"n", "r", "e", "t">>, xlen |-> <<"x", "l", "e", "n">>,
     ilen |-> <<"i", "l", "e", "n">>, buslen |-> <<"b", "u", "s", "l", "e", "n">>, nbus |-> <<"n", "b", "u", "s">>, append |-> <<"a", "p", "p", "e", "n", "d">>,
     mode |-> <<"m", "o", "d", "e">>, cover |-> <<"c", "o", "v", "e", "r">>, engine |-> <<"e", "n", "g", "i", "n", "e">>,
     ilang_file |-> <<"i", "l", "a", "n", "g", "_", "f", "i", "l", "e">>, insn |-> <<"i", "n", "s", "n">>, checkch |-> <<"c", "h", "e", "c", "k", "c", "h">>,
     channel |-> <<"c", "h", "a", "n", "n", "e", "l">>, depth |-> <<"d", "e", "p", "t", "h">>, depth_plus |-> <<"d", "e", "p", "t", "h", "_", "p", "l", "u", "s">>,
     skip |-> <<"s", "k", "i", "p">>, check |-> <<"c", "h", "e", "c", "k">>, start |-> <<"s", "t", "a", "r", "t">>, xmode |-> <<"x", "m", "o", "d", "e">>]

\* '\n'.join(lines)
RECURSIVE join_lines(_)
join_lines(lines) ==
    IF lines = <<>> THEN <<>>
    ELSE IF Len(lines) = 1 THEN lines[1]
    ELSE lines[1] \o <<"\n">> \o join_lines(Tail(lines))

\* str(kwargs[k]); a value the model keeps whole stays one item of the text
harg_str(k, v) ==
    IF k \in {"nret", "xlen", "ilen", "buslen", "nbus", "append", "depth",
              "depth_plus", "skip", "start"} THEN Dec(v)
    ELSE IF k \in {"insn", "checkch", "channel", "check"} THEN v
    ELSE IF k = "cover" THEN join_lines(v)
    ELSE <<v>>

\* the lambda of re.sub: str(kwargs[name]), a KeyError when hargs has no such key
hfmt_lookup(name, h, keys) ==
    IF keys = {} THEN [error |-> TRUE, text |-> <<>>]
    ELSE [error |-> FALSE, text |-> harg_str(CHOOSE k \in keys : TRUE, h[CHOOSE k \in keys : TRUE])]

hfmt_cat(first, rest) ==
    IF first.error \/ rest.error THEN [error |-> TRUE, text |-> <<>>]
    ELSE [error |-> FALSE, text |-> first.text \o rest.text]

\* re.sub(r"@([a-zA-Z0-9_]+)@", lambda match: str(kwargs[match.group(1)]), line):
\* the leftmost match from position i to j is replaced, the text behind it is
\* searched in turn
RECURSIVE hfmt_sub(_, _)
hfmt_sub_at(line, h, i, j) ==
    hfmt_cat(hfmt_cat([error |-> FALSE, text |-> SubSeq(line, 1, i - 1)],
                      hfmt_lookup(SubSeq(line, i + 1, j - 1), h,
                          {k \in DOMAIN h : HargNames[k] = SubSeq(line, i + 1, j - 1)})),
             hfmt_sub(SubSeq(line, j + 1, Len(line)), h))

hfmt_sub_from(line, h, starts) ==
    IF starts = {} THEN [error |-> FALSE, text |-> line]
    ELSE hfmt_sub_at(line, h, Min(starts), TokenEnd(line, Min(starts)))

hfmt_sub(line, h) ==
    hfmt_sub_from(line, h, {i \in 1..Len(line) : TokenEnd(line, i) > 0})

\* the number of blanks at the head of the line
RECURSIVE LeadingSpace(_)
LeadingSpace(s) == IF s # <<>> /\ IsSpace(s[1]) THEN 1 + LeadingSpace(Tail(s)) ELSE 0

\* re.match(r"^\s*: ?(.*)", line), k the blanks at its head: the group, the
\* line itself when there is no match, None for a blank line (skipped)
hfmt_line(line, k) ==
    IF k < Len(line) /\ line[k + 1] = ":"
    THEN Some(SubSeq(line, IF k + 2 <= Len(line) /\ line[k + 2] = " " THEN k + 3 ELSE k + 2,
                     Len(line)))
    ELSE IF k = Len(line) THEN None
    ELSE Some(line)

\* hfmt(text, **hargs): the lines, or the KeyError of an unbound `@name@`
RECURSIVE hfmt(_, _)
hfmt_rest(first, text, h) ==
    IF first.error THEN [error |-> TRUE, lines |-> <<>>]
    ELSE [error |-> hfmt(text, h).error,
          lines |-> IF hfmt(text, h).error THEN <<>> ELSE <<first.text>> \o hfmt(text, h).lines]

hfmt_head(m, text, h) ==
    IF m = None THEN hfmt(text, h) ELSE hfmt_rest(hfmt_sub(m[1], h), text, h)

hfmt(text, h) ==
    IF text = <<>> THEN [error |-> FALSE, lines |-> <<>>]
    ELSE hfmt_head(hfmt_line(Head(text), LeadingSpace(Head(text))), Tail(text), h)

\* print_hfmt(sby_file, config["script-defines"], **hargs): the lines join the
\* descriptor; a KeyError leaves the file as it was printed up to there
with_script_defines(desc, sd) ==
    [desc EXCEPT !.script_defines = sd.lines, !.truncated = @ \/ sd.error]

\* a variant in which the flag changes only at the matching tag
RECURSIVE assume_scan_flip(_, _, _)
assume_scan_flip(pat, check, enabled) ==
    IF pat = <<>> THEN enabled
    ELSE IF re_match(IF StartsWith(Head(pat), <<"!">>) THEN Tail(Head(pat)) ELSE Head(pat), check)
         THEN ~enabled
         ELSE assume_scan_flip(Tail(pat), check, enabled)

\* The loop `for p in pat` of lines 607-615, entered with the flag `enabled`:
\* each tag sets the flag (False for a tag with `!`, True for one without),
\* the first tag with re.match(p, check) inverts it and ends the loop.
RECURSIVE assume_scan(_, _, _)
assume_scan(pat, check, enabled) ==
    IF pat = <<>> THEN enabled
    ELSE IF re_match(IF StartsWith(Head(pat), <<"!">>) THEN Tail(Head(pat)) ELSE Head(pat), check)
         THEN StartsWith(Head(pat), <<"!">>)
         ELSE assume_scan(Tail(pat), check, ~StartsWith(Head(pat), <<"!">>))

\* lines 603-618 and 911-926: the lines printed into assume_stmts.vh, None
\* when the configuration has no assume section
assume_stmts(cfg, check) ==
    IF cfg.assume = <<>> THEN None
    ELSE Some([i \in 1..Len(SelectSeq(cfg.assume, LAMBDA e : assume_scan(e[1], check, TRUE))) |->
                 SelectSeq(cfg.assume, LAMBDA e : assume_scan(e[1], check, TRUE))[i][2]])

\* The part of the run's state that check_insn and check_cons read and write.
\* `ret` is the value returned by the call, `error` an uncaught exception.
RunState(h, f, w, c) ==
    [hargs |-> h, files |-> f, writes |-> w, csrs |-> c, ret |-> None, error |-> FALSE]

\* `with open(f"{cfgname}/{check}.sby", "w")`: the file is created or truncated
WriteFile(st, check, text) ==
    [st EXCEPT !.files = SetKey(@, check, text),
               !.writes = SetKey(@, check,
                              IF check \in DOMAIN @ THEN @[check] + 1 ELSE 1)]

\* The fields of a candidate: one call of check_insn or check_cons.
\*   fn: "check_insn" | "check_cons";  grp: None | Some(text)
\*   check: instruction, CSR or consistency check name;  ill: illegal triple
\*   chanidx, start, trig, csr_test: None | Some(value);  depth: index
Candidate(f, g, name, triple, ch, cm, ic, st, dp, tr, ct, bm) ==
    [fn |-> f, grp |-> g, check |-> name, ill |-> triple, chanidx |-> ch,
     csr_mode |-> cm, illegal_csr |-> ic, start |-> st, depth |-> dp, trig |-> tr,
     csr_test |-> ct, bus_mode |-> bm]

(***************************************************************************)
(* check_insn                                                              *)
(***************************************************************************)
insn_kind(c) == IF c.illegal_csr THEN t_csr_ill ELSE IF c.csr_mode THEN t_csrw ELSE t_insn

\* the identifier that follows the kind in the check name
insn_ident(c) == IF c.illegal_csr THEN c.ill[1] ELSE c.check

\* the candidate names handed to get_depth_cfg
insn_depth_patterns(c) ==
    insn_patterns(prefix(c.grp), insn_kind(c), insn_ident(c), c.chanidx[1])

\* the final check name
insn_check_name(c) == insn_depth_patterns(c)[4]

\* hargs["insn"]
insn_value(c) ==
    IF c.illegal_csr THEN <<"1", "2", "'", "h">> \o Hex03(ParseHex(c.ill[1])) ELSE c.check

\* the defines printed for an illegal-access check, in print order
ill_defines(c) ==
    IF ~c.illegal_csr THEN <<>>
    ELSE (IF Contains(c.ill[2], <<"m">>) THEN <<"ILL_MMODE">> ELSE <<>>)
      \o (IF Contains(c.ill[2], <<"s">>) THEN <<"ILL_SMODE">> ELSE <<>>)
      \o (IF Contains(c.ill[2], <<"u">>) THEN <<"ILL_UMODE">> ELSE <<>>)
      \o (IF Contains(c.ill[3], <<"r">>) THEN <<"ILL_READ">> ELSE <<>>)
      \o (IF Contains(c.ill[3], <<"w">>) THEN <<"ILL_WRITE">> ELSE <<>>)

\* the text check_insn prints into the descriptor, from hargs h
insn_descriptor(cfg, h, c, check, csrset, custom_iter) ==
    [ renderer |-> "check_insn",
      mode |-> h.mode, append |-> h.append, depth_plus |-> h.depth_plus,
      skip |-> h.skip, engine |-> h.engine,
      sv_file |-> check \o <<".", "s", "v">>,
      checker |-> IF c.illegal_csr THEN <<"r", "v", "f", "i", "_", "c", "s", "r", "_", "i", "l", "l", "_", "c", "h", "e", "c", "k">>
                  ELSE IF c.csr_mode THEN <<"r", "v", "f", "i", "_", "c", "s", "r", "w", "_", "c", "h", "e", "c", "k">> ELSE <<"r", "v", "f", "i", "_", "i", "n", "s", "n", "_", "c", "h", "e", "c", "k">>,
      reset_cycles |-> 1, check_cycle |-> h.depth, channel |-> Some(h.channel),
      trig |-> None,
      flags |-> (IF cfg.assume # <<>> THEN {"ASSUME"} ELSE {})
                \cup (IF cfg.mode = "prove" THEN {"UNBOUNDED"} ELSE {})
                \cup (IF c.csr_mode /\ c.check \in {<<"m", "c", "y", "c", "l", "e">>, <<"m", "i", "n", "s", "t", "r", "e", "t">>}
                      THEN {"CSRWH"} ELSE {})
                \cup (IF cfg.blackbox THEN {"BLACKBOX_REGS"} ELSE {})
                \cup (IF compr(cfg) THEN {"COMPRESSED"} ELSE {}),
      csr_defines |-> csr_defines(csrset),
      insn |-> h.insn,
      ill_defines |-> ill_defines(c),
      csrc_defines |-> <<>>,
      custom |-> IF custom_iter # <<>> THEN print_custom_csrs(custom_iter) ELSE <<>>,
      file_sv |-> h.checkch \o <<".", "s", "v">>,
      cover_stmts |-> None,
      script_defines |-> <<>>,
      assume_stmts |-> assume_stmts(cfg, check),
      truncated |-> FALSE ]

\* lines 446-451
insn_hargs(h, c, check, depth) ==
    [k \in (DOMAIN h) \cup
            {"insn", "checkch", "channel", "depth", "depth_plus", "skip"} |->
        CASE k = "insn" -> insn_value(c)
          [] k = "checkch" -> check
          [] k = "channel" -> Dec(c.chanidx[1])
          [] k = "depth" -> depth
          [] k = "depth_plus" -> depth + 1
          [] k = "skip" -> depth
          [] OTHER -> h[k]]

\* lines 446-620, h the hargs of this call
check_insn_write(st2, check, text) ==
    [WriteFile(st2, check, text)
       EXCEPT !.ret = IF text.truncated THEN None ELSE Some(check),
              !.error = text.truncated]

check_insn_print(cfg, st, c, check, h, custom_iter) ==
    check_insn_write([st EXCEPT !.hargs = h], check,
        with_script_defines(insn_descriptor(cfg, h, c, check, st.csrs, custom_iter),
                            hfmt(cfg.script_defines, h)))

\* lines 440-444
check_insn_depth(cfg, st, c, check, depth_cfg, disabled, custom_iter) ==
    IF depth_cfg = None THEN st
    ELSE IF Len(depth_cfg[1]) # 1 THEN [st EXCEPT !.error = TRUE]
    ELSE IF disabled = "AssertionError" THEN [st EXCEPT !.error = TRUE]
    ELSE IF disabled = "disabled" THEN st
    ELSE check_insn_print(cfg, st, c, check,
                          insn_hargs(st.hargs, c, check, depth_cfg[1][1]), custom_iter)

check_insn(cfg, st, c, custom_iter) ==
    check_insn_depth(cfg, st, c, insn_check_name(c),
                     get_depth_cfg(cfg, insn_depth_patterns(c)),
                     test_disabled(cfg, insn_check_name(c)), custom_iter)

(***************************************************************************)
(* check_cons                                                              *)
(***************************************************************************)

\* str.replace(old, new)
RECURSIVE replace(_, _, _)
replace(s, old, new) ==
    IF Len(s) < Len(old) THEN s
    ELSE IF SubSeq(s, 1, Len(old)) = old
         THEN new \o replace(SubSeq(s, Len(old) + 1, Len(s)), old, new)
         ELSE <<Head(s)>> \o replace(Tail(s), old, new)

\* str.strip('"')
RECURSIVE strip_quotes(_)
strip_quotes(s) ==
    IF s # <<>> /\ s[1] = "\"" THEN strip_quotes(Tail(s))
    ELSE IF s # <<>> /\ s[Len(s)] = "\"" THEN strip_quotes(SubSeq(s, 1, Len(s) - 1))
    ELSE s

\* a variant that reads a missing value as the empty text
value_after_eq_empty(s) ==
    IF Find(s, <<"=">>) < 0 THEN Some(<<>>)
    ELSE Some(strip_quotes(SubSeq(s, Find(s, <<"=">>) + 2, Len(s))))

\* str(s).split('=', maxsplit=1)[1].strip('"'): None stands for the IndexError
value_after_eq(s) ==
    IF Find(s, <<"=">>) < 0 THEN None
    ELSE Some(strip_quotes(SubSeq(s, Find(s, <<"=">>) + 2, Len(s))))

\* The csr_mode branch up to the assignment of check_name.
\*   error: the `assert 0` of a _mask without value
\*   check, check_name: the names;  defs: the locals the csr_defs loop finds
\*   counter: Some(hpmcounter) when the hpm branch ran
csr_test_parse(pf, csr_name, csr_test) ==
    IF csr_test = None
    THEN [error |-> FALSE, check |-> pf \o us(t_csrc, csr_name), check_name |-> t_csrc,
          defs |-> <<>>, counter |-> None]
    ELSE
    LET full == csr_test[1]
        mask_idx == Find(full, <<"_", "m", "a", "s", "k">>)
        mask == IF mask_idx >= 0
                THEN value_after_eq(SubSeq(full, mask_idx + 1, Len(full)))
                ELSE None
        test == IF mask_idx >= 0 THEN SubSeq(full, 1, mask_idx) ELSE full
        val  == value_after_eq(test)
        mask_def == IF mask # None THEN << <<"CSRC_MASK", mask[1]>> >> ELSE <<>>
    IN IF mask_idx >= 0 /\ mask = None
       THEN [error |-> TRUE, check |-> <<>>, check_name |-> <<>>, defs |-> <<>>,
             counter |-> None]
       ELSE IF StartsWith(test, <<"c", "o", "n", "s", "t">>)
       THEN [error |-> FALSE,
             check |-> pf \o us(<<"c", "s", "r", "c", "_", "c", "o", "n", "s", "t">>, csr_name), check_name |-> <<"c", "s", "r", "c", "_", "c", "o", "n", "s", "t">>,
             defs |-> << <<"CSRC_CONSTVAL",
                           IF val # None THEN val[1] ELSE <<"r", "d", "a", "t", "a", "_", "s", "h", "a", "d", "o", "w">>>> >> \o mask_def,
             counter |-> None]
       ELSE IF StartsWith(test, <<"h", "p", "m">>)
       THEN [error |-> FALSE,
             check |-> pf \o us(<<"c", "s", "r", "c", "_", "h", "p", "m">>, csr_name), check_name |-> <<"c", "s", "r", "c", "_", "h", "p", "m">>,
             defs |-> (IF val # None THEN << <<"CSRC_HPMEVENT", val[1]>> >> ELSE <<>>)
                      \o << <<"CSRC_HPMCOUNTER", replace(csr_name, <<"e", "v", "e", "n", "t">>, <<"c", "o", "u", "n", "t", "e", "r">>)>> >>
                      \o mask_def,
             counter |-> Some(replace(csr_name, <<"e", "v", "e", "n", "t">>, <<"c", "o", "u", "n", "t", "e", "r">>))]
       ELSE [error |-> FALSE,
             check |-> pf \o us(us(t_csrc, test), csr_name),
             check_name |-> us(t_csrc, test),
             defs |-> mask_def, counter |-> None]

\* hargs["check"], the candidate names for get_depth_cfg and the final name
cons_names_of(c, pf, p) ==
    IF c.csr_mode
    THEN IF c.chanidx # None
         THEN [check_name |-> p.check_name,
               patterns |-> << pf \o p.check_name, p.check,
                               with_ch(pf \o p.check_name, c.chanidx[1]),
                               with_ch(p.check, c.chanidx[1]) >>,
               check |-> with_ch(p.check, c.chanidx[1])]
         ELSE [check_name |-> p.check_name,
               patterns |-> << p.check_name, p.check >>,
               check |-> p.check]
    ELSE IF c.chanidx # None
         THEN [check_name |-> c.check,
               patterns |-> << pf \o c.check, with_ch(pf \o c.check, c.chanidx[1]) >>,
               check |-> with_ch(pf \o c.check, c.chanidx[1])]
         ELSE [check_name |-> c.check,
               patterns |-> << pf \o c.check >>,
               check |-> pf \o c.check]

cons_names(c) ==
    cons_names_of(c, prefix(c.grp), csr_test_parse(prefix(c.grp), c.check, c.csr_test))

\* a variant that recognises the cover check of every group
cons_xmode_any_group(cfg, c, check) ==
    IF check = prefix(c.grp) \o <<"c", "o", "v", "e", "r">> \/ Contains(check, <<"c", "s", "r", "c", "_", "h", "p", "m">>)
    THEN "cover" ELSE cfg.mode

\* hargs["xmode"]
cons_xmode(cfg, c, check) ==
    IF check = <<"c", "o", "v", "e", "r">> \/ Contains(check, <<"c", "s", "r", "c", "_", "h", "p", "m">>) THEN "cover" ELSE cfg.mode

\* The text check_cons prints into the descriptor, from hargs h.  The print
\* of the cover section raises KeyError when hargs has no "cover": the file
\* then keeps what was printed before (truncated).
cons_descriptor(cfg, h, c, check, depth_cfg, csrset, custom_iter) ==
    [ renderer |-> "check_cons",
      mode |-> h.xmode, append |-> h.append, depth_plus |-> h.depth_plus,
      skip |-> h.skip, engine |-> h.engine,
      sv_file |-> check \o <<".", "s", "v">>,
      checker |-> <<"r", "v", "f", "i", "_">> \o h.check \o <<"_", "c", "h", "e", "c", "k">>,
      reset_cycles |-> h.start, check_cycle |-> h.depth,
      channel |-> IF c.chanidx # None THEN Some(Dec(c.chanidx[1])) ELSE None,
      trig |-> IF c.trig # None THEN Some(depth_cfg[c.trig[1] + 1]) ELSE None,
      flags |-> (IF cfg.assume # <<>> THEN {"ASSUME"} ELSE {})
                \cup (IF cfg.mode = "prove" THEN {"UNBOUNDED"} ELSE {})
                \cup (IF cfg.blackbox /\ h.check # <<"l", "i", "v", "e", "n", "e", "s", "s">> THEN {"BLACKBOX_ALU"} ELSE {})
                \cup (IF cfg.blackbox /\ h.check # <<"r", "e", "g">> THEN {"BLACKBOX_REGS"} ELSE {})
                \cup (IF c.bus_mode THEN {"BUS"} ELSE {})
                \cup (IF h.check \in {<<"l", "i", "v", "e", "n", "e", "s", "s">>, <<"h", "a", "n", "g">>} THEN {"FAIRNESS"} ELSE {}),
      csr_defines |-> csr_defines(csrset),
      insn |-> <<>>,
      ill_defines |-> <<>>,
      csrc_defines |-> IF c.csr_mode
                       THEN csr_test_parse(prefix(c.grp), c.check, c.csr_test).defs
                              \o << <<"CSRC_NAME", c.check>> >>
                       ELSE <<>>,
      custom |-> IF custom_iter # <<>> THEN print_custom_csrs(custom_iter) ELSE <<>>,
      file_sv |-> h.checkch \o <<".", "s", "v">>,
      cover_stmts |-> IF check = prefix(c.grp) \o <<"c", "o", "v", "e", "r">> /\ "cover" \in DOMAIN h
                      THEN Some(h.cover) ELSE None,
      script_defines |-> <<>>,
      assume_stmts |-> assume_stmts(cfg, check),
      truncated |-> check = prefix(c.grp) \o <<"c", "o", "v", "e", "r">> /\ "cover" \notin DOMAIN h ]

\* lines 724-740: hargs["check"], hargs["channel"]
cons_hargs_check(h, c, check_name) ==
    [k \in (DOMAIN h) \cup {"check"}
              \cup (IF c.chanidx # None THEN {"channel"} ELSE {}) |->
        CASE k = "check" -> check_name
          [] k = "channel" /\ c.chanidx # None -> Dec(c.chanidx[1])
          [] OTHER -> h[k]]

\* lines 758-766: the keys set once the depth rule is known
cons_hargs_depth(cfg, c, h1, check, start, depth) ==
    [k \in (DOMAIN h1) \cup
            {"start", "depth", "depth_plus", "skip", "checkch", "xmode"} |->
        CASE k = "start" -> start
          [] k = "depth" -> depth
          [] k = "depth_plus" -> depth + 1
          [] k = "skip" -> depth
          [] k = "checkch" -> check
          [] k = "xmode" -> cons_xmode(cfg, c, check)
          [] OTHER -> h1[k]]

\* the indices of the depth rule the call reads
cons_depth_indices(c) ==
    {c.depth} \cup (IF c.start # None THEN {c.start[1]} ELSE {})
              \cup (IF c.trig # None THEN {c.trig[1]} ELSE {})

\* lines 768-928: test_disabled, then the descriptor
check_cons_print(st2, check, disabled, text) ==
    IF disabled = "AssertionError" THEN [st2 EXCEPT !.error = TRUE]
    ELSE IF disabled = "disabled" THEN st2
    ELSE [WriteFile(st2, check, text)
            EXCEPT !.ret = IF text.truncated THEN None ELSE Some(check),
                   !.error = text.truncated]

check_cons_hargs(cfg, st1, c, check, depth_cfg, h2, custom_iter) ==
    check_cons_print([st1 EXCEPT !.hargs = h2], check, test_disabled(cfg, check),
        with_script_defines(
            cons_descriptor(cfg, h2, c, check, depth_cfg, st1.csrs, custom_iter),
            hfmt(cfg.script_defines, h2)))

\* lines 744-766, st1 the state with hargs["check"] set and the counter added
check_cons_depth(cfg, st1, c, check, depth_opt, custom_iter) ==
    IF depth_opt = None THEN st1
    ELSE IF \E i \in cons_depth_indices(c) : i >= Len(depth_opt[1])
         THEN [st1 EXCEPT !.error = TRUE]
    ELSE check_cons_hargs(cfg, st1, c, check, depth_opt[1],
            cons_hargs_depth(cfg, c, st1.hargs, check,
                IF c.start # None THEN depth_opt[1][c.start[1] + 1] ELSE 1,
                depth_opt[1][c.depth + 1]),
            custom_iter)

\* lines 711-713: the hpm branch registers the paired counter
cons_csrs(st, c, parse) ==
    IF c.csr_mode /\ parse.counter # None
    THEN st.csrs \cup {parse.counter[1]} ELSE st.csrs

check_cons_names(cfg, st, c, parse, names, custom_iter) ==
    check_cons_depth(cfg,
        [st EXCEPT !.hargs = cons_hargs_check(st.hargs, c, names.check_name),
                   !.csrs = cons_csrs(st, c, parse)],
        c, names.check, get_depth_cfg(cfg, names.patterns), custom_iter)

check_cons_parsed(cfg, st, c, parse, custom_iter) ==
    IF c.csr_mode /\ parse.error THEN [st EXCEPT !.error = TRUE]
    ELSE check_cons_names(cfg, st, c, parse, cons_names_of(c, prefix(c.grp), parse),
                          custom_iter)

check_cons(cfg, st, c, custom_iter) ==
    check_cons_parsed(cfg, st, c, csr_test_parse(prefix(c.grp), c.check, c.csr_test),
                      custom_iter)

(***************************************************************************)
(* Enumeration: the loops of add_all_check_insn and                        *)
(* add_all_consistency_checks for one group                                *)
(***************************************************************************)

\* sorted(isa_cfg.illegal_csrs, key=lambda csr: csr[0]) over the order `iter`
\* in which the set is iterated: triples of equal address keep that order
sorted_illegal(iter) ==
    LET s == SortedByKey([i \in 1..Len(iter) |-> <<iter[i][1], iter[i]>>])
    IN [i \in 1..Len(s) |-> s[i][2]]

\* range(isa_cfg.nret)
Channels(cfg) == [i \in 1..cfg.nret |-> i - 1]

insn_calls(cfg, grp, csrset, ill_iter) ==
    LET ch == Channels(cfg)
        cs == sorted(csrset)
        il == sorted_illegal(ill_iter)
    IN Flatten([i \in 1..Len(cfg.insns) |-> [k \in 1..Len(ch) |->
            Candidate("check_insn", grp, cfg.insns[i], <<>>, Some(ch[k]),
                      FALSE, FALSE, None, 0, None, None, FALSE)]])
       \o Flatten([i \in 1..Len(cs) |-> [k \in 1..Len(ch) |->
            Candidate("check_insn", grp, cs[i], <<>>, Some(ch[k]),
                      TRUE, FALSE, None, 0, None, None, FALSE)]])
       \o Flatten([i \in 1..Len(il) |-> [k \in 1..Len(ch) |->
            Candidate("check_insn", grp, <<>>, il[i], Some(ch[k]),
                      FALSE, TRUE, None, 0, None, None, FALSE)]])

\* a variant of the table with eight bus checks (bus_dmem_io_order left out)
ChannelChecksEightBus ==
    << <<<<"r", "e", "g">>, Some(0), None, 1, FALSE>>,
       <<<<"p", "c", "_", "f", "w", "d">>, Some(0), None, 1, FALSE>>,
       <<<<"p", "c", "_", "b", "w", "d">>, Some(0), None, 1, FALSE>>,
       <<<<"l", "i", "v", "e", "n", "e", "s", "s">>, Some(0), Some(1), 2, FALSE>>,
       <<<<"u", "n", "i", "q", "u", "e">>, Some(0), Some(1), 2, FALSE>>,
       <<<<"c", "a", "u", "s", "a", "l">>, Some(0), None, 1, FALSE>>,
       <<<<"c", "a", "u", "s", "a", "l", "_", "m", "e", "m">>, Some(0), None, 1, FALSE>>,
       <<<<"c", "a", "u", "s", "a", "l", "_", "i", "o">>, Some(0), None, 1, FALSE>>,
       <<<<"i", "l", "l">>, None, None, 0, FALSE>>,
       <<<<"f", "a", "u", "l", "t">>, None, None, 0, FALSE>>,
       <<<<"b", "u", "s", "_", "i", "m", "e", "m">>, Some(0), None, 1, TRUE>>,
       <<<<"b", "u", "s", "_", "i", "m", "e", "m", "_", "f", "a", "u", "l", "t">>, Some(0), None, 1, TRUE>>,
       <<<<"b", "u", "s", "_", "d", "m", "e", "m">>, Some(0), None, 1, TRUE>>,
       <<<<"b", "u", "s", "_", "d", "m", "e", "m", "_", "f", "a", "u", "l", "t">>, Some(0), None, 1, TRUE>>,
       <<<<"b", "u", "s", "_", "d", "m", "e", "m", "_", "i", "o", "_", "r", "e", "a", "d">>, Some(0), None, 1, TRUE>>,
       <<<<"b", "u", "s", "_", "d", "m", "e", "m", "_", "i", "o", "_", "r", "e", "a", "d", "_", "f", "a", "u", "l", "t">>, Some(0), None, 1, TRUE>>,
       <<<<"b", "u", "s", "_", "d", "m", "e", "m", "_", "i", "o", "_", "w", "r", "i", "t", "e">>, Some(0), None, 1, TRUE>>,
       <<<<"b", "u", "s", "_", "d", "m", "e", "m", "_", "i", "o", "_", "w", "r", "i", "t", "e", "_", "f", "a", "u", "l", "t">>, Some(0), None, 1, TRUE>> >>

\* the consistency checks of one channel, lines 637-656: name, start, trig,
\* depth, bus_mode
ChannelChecks ==
    << <<<<"r", "e", "g">>, Some(0), None, 1, FALSE>>,
       <<<<"p", "c", "_", "f", "w", "d">>, Some(0), None, 1, FALSE>>,
       <<<<"p", "c", "_", "b", "w", "d">>, Some(0), None, 1, FALSE>>,
       <<<<"l", "i", "v", "e", "n", "e", "s", "s">>, Some(0), Some(1), 2, FALSE>>,
       <<<<"u", "n", "i", "q", "u", "e">>, Some(0), Some(1), 2, FALSE>>,
       <<<<"c", "a", "u", "s", "a", "l">>, Some(0), None, 1, FALSE>>,
       <<<<"c", "a", "u", "s", "a", "l", "_", "m", "e", "m">>, Some(0), None, 1, FALSE>>,
       <<<<"c", "a", "u", "s", "a", "l", "_", "i", "o">>, Some(0), None, 1, FALSE>>,
       <<<<"i", "l", "l">>, None, None, 0, FALSE>>,
       <<<<"f", "a", "u", "l", "t">>, None, None, 0, FALSE>>,
       <<<<"b", "u", "s", "_", "i", "m", "e", "m">>, Some(0), None, 1, TRUE>>,
       <<<<"b", "u", "s", "_", "i", "m", "e", "m", "_", "f", "a", "u", "l", "t">>, Some(0), None, 1, TRUE>>,
       <<<<"b", "u", "s", "_", "d", "m", "e", "m">>, Some(0), None, 1, TRUE>>,
       <<<<"b", "u", "s", "_", "d", "m", "e", "m", "_", "f", "a", "u", "l", "t">>, Some(0), None, 1, TRUE>>,
       <<<<"b", "u", "s", "_", "d", "m", "e", "m", "_", "i", "o", "_", "r", "e", "a", "d">>, Some(0), None, 1, TRUE>>,
       <<<<"b", "u", "s", "_", "d", "m", "e", "m", "_", "i", "o", "_", "r", "e", "a", "d", "_", "f", "a", "u", "l", "t">>, Some(0), None, 1, TRUE>>,
       <<<<"b", "u", "s", "_", "d", "m", "e", "m", "_", "i", "o", "_", "w", "r", "i", "t", "e">>, Some(0), None, 1, TRUE>>,
       <<<<"b", "u", "s", "_", "d", "m", "e", "m", "_", "i", "o", "_", "w", "r", "i", "t", "e", "_", "f", "a", "u", "l", "t">>, Some(0), None, 1, TRUE>>,
       <<<<"b", "u", "s", "_", "d", "m", "e", "m", "_", "i", "o", "_", "o", "r", "d", "e", "r">>, Some(0), None, 1, TRUE>> >>

\* the checks without channel, lines 658-659
GroupChecks == << <<"h", "a", "n", "g">>, <<"c", "o", "v", "e", "r">> >>

\* isa_cfg.csr_tests.get(csr, [None])
tests_of(tests, csr) ==
    IF csr \in DOMAIN tests
    THEN [i \in 1..Len(tests[csr]) |-> Some(tests[csr][i])]
    ELSE <<None>>

cons_calls(cfg, grp, csrset, tests) ==
    LET ch == Channels(cfg)
        cs == sorted(csrset)
    IN Flatten([k \in 1..Len(ch) |-> [i \in 1..Len(ChannelChecks) |->
            Candidate("check_cons", grp, ChannelChecks[i][1], <<>>, Some(ch[k]),
                      FALSE, FALSE, ChannelChecks[i][2], ChannelChecks[i][4],
                      ChannelChecks[i][3], None, ChannelChecks[i][5])]])
       \o [i \in 1..Len(GroupChecks) |->
            Candidate("check_cons", grp, GroupChecks[i], <<>>, None,
                      FALSE, FALSE, Some(0), 1, None, None, FALSE)]
       \o Flatten([i \in 1..Len(cs) |-> Flatten([k \in 1..Len(ch) |->
            [j \in 1..Len(tests_of(tests, cs[i])) |->
                Candidate("check_cons", grp, cs[i], <<>>, Some(ch[k]),
                          TRUE, FALSE, Some(0), 1, None,
                          tests_of(tests, cs[i])[j], FALSE)]])])

\* set(filter(lambda check: check is not None, checks))
checks_set(list) == {list[i][1] : i \in {j \in 1..Len(list) : list[j] # None}}

(***************************************************************************)
(* create_makefile                                                         *)
(***************************************************************************)

\* the lines of the `sort` section that full-match the check, by position
sort_hits(cfg, check) ==
    {i \in 1..Len(cfg.sort) : re_fullmatch(cfg.sort[i], check)}

checks_key(cfg, check) ==
    IF sort_hits(cfg, check) # {}
    THEN ZeroPad(Dec(Min(sort_hits(cfg, check)) - 1), 4) \o <<"-">> \o check
    ELSE IF StartsWith(check, <<"i", "n", "s", "n", "_">>) THEN <<"9", "9", "9", "9", "-">> \o check
    ELSE <<"9", "9", "9", "8", "-">> \o check

\* list(sorted(S, key=lambda check: checks_key(config, check)))
sorted_checks(cfg, S) ==
    LET l == SetToSeq(S)
        s == SortedByKey([i \in 1..Len(l) |-> <<checks_key(cfg, l[i]), l[i]>>])
    IN [i \in 1..Len(s) |-> s[i][2]]

\* a variant that concatenates the two results instead of uniting them
create_makefile_concat(cfg, cons, inst) ==
    LET l == SetToSeq(cons) \o SetToSeq(inst)
        s == SortedByKey([i \in 1..Len(l) |-> <<checks_key(cfg, l[i]), l[i]>>])
    IN [all |-> [i \in 1..Len(s) |-> s[i][2]],
        rules |-> [i \in 1..Len(s) |->
                    [target |-> s[i][2], status |-> s[i][2] \o <<"/", "s", "t", "a", "t", "u", "s">>,
                     command |-> (IF cfg.abspath THEN <<"s", "b", "y", " ", "$", "(", "s", "h", "e", "l", "l", " ", "p", "w", "d", ")", "/">> ELSE <<"s", "b", "y", " ">>)
                                   \o s[i][2] \o <<".", "s", "b", "y">>]]]

\* a variant that never prefixes the working directory
create_makefile_relative(cfg, cons, inst) ==
    [all |-> sorted_checks(cfg, cons \cup inst),
     rules |-> [i \in 1..Len(sorted_checks(cfg, cons \cup inst)) |->
                 [target |-> sorted_checks(cfg, cons \cup inst)[i],
                  status |-> sorted_checks(cfg, cons \cup inst)[i] \o <<"/", "s", "t", "a", "t", "u", "s">>,
                  command |-> <<"s", "b", "y", " ">> \o sorted_checks(cfg, cons \cup inst)[i] \o <<".", "s", "b", "y">>]]]

\* the makefile: the default target `all` and, per check, its rule
create_makefile(cfg, cons, inst) ==
    LET checks_ == sorted_checks(cfg, cons \cup inst) IN
    [all |-> checks_,
     rules |-> [i \in 1..Len(checks_) |->
                 [target |-> checks_[i], status |-> checks_[i] \o <<"/", "s", "t", "a", "t", "u", "s">>,
                  command |-> (IF cfg.abspath THEN <<"s", "b", "y", " ", "$", "(", "s", "h", "e", "l", "l", " ", "p", "w", "d", ")", "/">> ELSE <<"s", "b", "y", " ">>)
                                \o checks_[i] \o <<".", "s", "b", "y">>]]]

(***************************************************************************)
(* The configurations the run is checked on                                *)
(***************************************************************************)
Cfg(isa_, spec, n, grps, insns_, csrs_, custom, illegal, depth_, filter, sort_, cover_, mode_) ==
    [isa |-> isa_, csr_spec |-> spec, nret |-> n, mode |-> mode_,
     abspath |-> (mode_ = "prove"), blackbox |-> (mode_ = "prove"),
     groups |-> grps, insns |-> insns_, csrs |-> csrs_, custom_csrs |-> custom,
     illegal_csrs |-> illegal, depth |-> depth_, filter_checks |-> filter,
     sort |-> sort_, assume |-> <<>>, cover |-> cover_, script_defines |-> <<>>]

t_any == <<".", "*">>
CoverLines == << <<"a", "l", "w", "a", "y", "s", " ", "@", "*", " ", "c", "o", "v", "e", "r", " ", "(", "1", ")", ";">> >>

\* [filter-checks] and [sort] sections, in pairs
FilterSort ==
    { << <<>>, <<>> >>,
      << << <<"-", <<"i", "n", "s", "n", "_", "a", "d", "d">>>>, <<"+", t_any>> >>, << <<"i", "n", "s", "n", "_", "s", "u", "b", ".", "*">>, <<"r", "e", "g", "_", "c", "h", "0">> >> >>,
      << << <<"+", t_any>> >>, << <<".", "*", "c", "o", "v", "e", "r">>, <<"c", "s", "r", ".", "*">> >> >>,
      << << <<>>, <<"-", <<".", "*", "_", "c", "h", "1">>>>, <<"-", <<"g", "_", "p", "c">>>> >>, << <<"i", "n", "s", "n", "_", "a", "d", "d", "_", "c", "h", "0">> >> >> }

\* A: default group only, two custom CSRs, two illegal triples at one address
DepthA ==
    { << <<t_any, 1, 2, 3>>, <<t_insn, 4>>, <<t_csrw, 5>>, <<t_csr_ill, 6>> >>,
      << <<t_insn, 4>>, <<<<"c", "s", "r", "_", "i", "l", "l", "_", "7", "C", "5">>, 6>>, <<<<"r", "e", "g">>, 1, 2>>, <<<<"c", "o", "v", "e", "r">>, 1, 2>>,
         <<t_csrc, 1, 2>> >>,
      << <<t_insn_any, 3>>, <<>>, <<t_insn_add, 5>> >>,
      << <<t_any, 1>> >> }

ConfigsA ==
    { Cfg(<<"r", "v", "3", "2", "i">>, <<>>, n, <<>>, <<t_add, t_sub>>,
          << <<"x", " ", "a", "n", "y">>, t_two_tests >>,
          << <<"7", "C", "0", " ", "m", "u", " ", "c", "s", "t">>, <<"7", "C", "1", " ", "s", " ", "c", "s", "2">>, <<"7", "C", "2">> >>,
          << <<"7", "C", "5", " ", "u", " ", "r", "w">>, <<"7", "C", "5", " ", "s", " ", "r">>, <<>>, <<"7", "C", "6", " ", "m", " ", "w">> >>,
          d, fs[1], fs[2], CoverLines, "bmc") :
        n \in {1, 2}, d \in DepthA, fs \in FilterSort }

\* B: a named group beside the default group
DepthB ==
    { << <<t_any, 1, 2, 3>>, <<<<".", "*", "i", "n", "s", "n">>, 4>>, <<<<".", "*", "c", "s", "r", "w">>, 5>>, <<<<".", "*", "c", "s", "r", "_", "i", "l", "l">>, 6>> >>,
      << <<t_insn, 4>>, <<<<"g", "_", "i", "n", "s", "n">>, 4>>, <<<<"g", "_", "r", "e", "g">>, 1, 2>>, <<<<"g", "_", "c", "o", "v", "e", "r">>, 1, 2>>,
         <<<<"c", "o", "v", "e", "r">>, 1, 2>>, <<<<"g", "_", "l", "i", "v", "e", "n", "e", "s", "s">>, 1, 2, 3>> >> }

ConfigsB ==
    { Cfg(<<"r", "v", "3", "2", "i", "c">>, <<>>, 1, <<<<"g">>>>, <<t_add>>, << <<"x", " ", "a", "n", "y">> >>, <<>>,
          << <<"7", "C", "5", " ", "u", " ", "r", "w">> >>, d, fs[1], fs[2], c, m) :
        d \in DepthB, fs \in FilterSort,
        c \in {CoverLines}, m \in {"bmc", "prove"} }
    \cup
    { Cfg(<<"r", "v", "3", "2", "i", "c">>, <<>>, 1, <<<<"g">>>>, <<t_add>>, <<>>, <<>>, <<>>,
          d, <<>>, <<>>, <<>>, "cover") : d \in DepthB }

\* C: the same group declared twice; a malformed filter line
ConfigsC ==
    { Cfg(<<"r", "v", "3", "2", "i">>, <<>>, 1, <<<<"g">>, <<"g">>>>, <<t_add>>, <<>>, <<>>, <<>>,
          d, f, <<>>, CoverLines, "bmc") :
        d \in DepthB, f \in {<<>>, << <<"-", <<"g", "_", "r", "e", "g">>>>, <<"!", t_any>> >>} }

\* D: a group named csrw and the CSRs y and csrc_y: the CSR-write check of
\* csrc_y and the group's consistency check of y have one name
DepthD ==
    { << <<t_csrw, 5>>, <<<<"c", "s", "r", "w", "_", "c", "s", "r", "c">>, 1, 2>>, <<t_insn, 4>> >>,
      << <<t_csrw, 5>>, <<t_insn, 4>> >>,
      << <<<<"c", "s", "r", "w", "_", "c", "s", "r", "c">>, 1, 2>> >> }

ConfigsD ==
    { Cfg(<<"r", "v", "3", "2", "i">>, <<>>, 1, <<t_csrw>>, <<t_add>>, << <<"y">>, <<"c", "s", "r", "c", "_", "y">> >>, <<>>,
          <<>>, d, f, <<>>, <<>>, "bmc") :
        d \in DepthD, f \in {<<>>, << <<"+", t_any>> >>} }

\* E: CSR specification 1.12 under several isa identifiers
ConfigsE ==
    { Cfg(i, t_1_12, 1, <<>>, <<t_add>>, c, <<>>, il,
          << <<t_insn, 4>>, <<<<"c", "s", "r", "w", "_", "m", ".", "d", "e", "l", "e", "g">>, 5>>, <<<<"c", "s", "r", "_", "i", "l", "l", "_", "3", "0", ".">>, 6>>,
             <<<<"c", "s", "r", "c", "_", "z", "e", "r", "o">>, 1, 2>> >>,
          <<>>, <<>>, <<>>, "bmc") :
        i \in {<<"r", "v", "3", "2", "i">>, <<"r", "v", "3", "2", "i", "s", "u">>, <<"r", "v", "6", "4", "i", "h">>},
        c \in {<<>>, << <<"m", "e", "d", "e", "l", "e", "g">> >>},
        il \in {<<>>, << <<"3", "0", "2", " ", "m", " ", "r", "w">> >>, << <<"3", "0", "2", " ", "m">> >>} }

\* F: CSR tests with and without a value after `const`, `hpm` and `_mask`
DepthF ==
    { << <<<<"c", "s", "r", "c", ".", "*">>, 1, 2>> >>,
      << <<<<"c", "s", "r", "c", "_", "a", "n", "y">>, 1, 2>>, <<t_csrw, 5>> >>,
      << <<<<"c", "s", "r", "c", "_", "c", "o", "n", "s", "t">>, 1, 2>>, <<<<"c", "s", "r", "c", "_", "a", "n", "y">>, 1, 2>> >> }

CsrsF ==
    { << <<"m", "h", "p", "m", "e", "v", "e", "n", "t", "3", " ", "h", "p", "m">>, <<"x", " ", "c", "o", "n", "s", "t", " ", "a", "n", "y">>, <<"z", " ", "z", "e", "r", "o", "_", "m", "a", "s", "k">> >>,
      << <<"m", "h", "p", "m", "e", "v", "e", "n", "t", "3", " ", "h", "p", "m", "=", "7">>, <<"x", " ", "c", "o", "n", "s", "t", "=", "\"", "5", "\"", " ", "a", "n", "y">>, <<"z", " ", "z", "e", "r", "o", "_", "m", "a", "s", "k", "=", "\"", "f", "f", "\"">> >>,
      << <<"m", "h", "p", "m", "e", "v", "e", "n", "t", "3", " ", "h", "p", "m">>, <<"x", " ", "a", "n", "y">> >>,
      << <<"x", " ", "c", "o", "n", "s", "t", "_", "m", "a", "s", "k", "=", "0", "f">> >> }

ConfigsF ==
    { Cfg(<<"r", "v", "3", "2", "i">>, <<>>, 1, g, <<t_add>>, c, <<>>, <<>>, d, <<>>, <<>>, <<>>, "bmc") :
        g \in {<<>>, <<<<"g">>>>}, c \in CsrsF, d \in DepthF }

\* G: a script-defines section with `@name@` tokens
DepthG ==
    { << <<t_insn, 4>>, <<<<"r", "e", "g">>, 1, 2>>, <<<<"h", "a", "n", "g">>, 1, 2>> >>,
      << <<<<"h", "a", "n", "g">>, 1, 2>> >>,
      << <<<<"r", "e", "g">>, 1, 2>> >> }

ScriptDefinesG ==
    { << <<":", " ", "r", "e", "a", "d", " ", "-", "d", "e", "f", "i", "n", "e", " ", "I", "=", "@", "i", "n", "s", "n", "@">> >>,
      << <<"r", "e", "a", "d", " ", "-", "d", "e", "f", "i", "n", "e", " ", "C", "=", "@", "c", "h", "a", "n", "n", "e", "l", "@">> >>,
      << <<"x", " ", "@", "b", "o", "g", "u", "s", "@">> >>,
      << <<>>, <<" ", " ", ":", " ", "d", "=", "@", "d", "e", "p", "t", "h", "@", " ", "n", "=", "@", "n", "r", "e", "t", "@", " ", "@", "@", "m", "o", "d", "e", "@", " ", "@", "x">>, <<":">> >>,
      << <<"@", "c", "h", "e", "c", "k", "@">> >> }

ConfigsG ==
    { [Cfg(<<"r", "v", "3", "2", "i">>, <<>>, 1, <<>>, <<t_add>>, <<>>, <<>>, <<>>, d, <<>>, <<>>, <<>>, "bmc")
         EXCEPT !.script_defines = sd] :
        d \in DepthG, sd \in ScriptDefinesG }

\* H: an assume section whose lines carry tag lists
AssumeH ==
    { << << <<>>, <<"A", "0">> >>,
         << <<<<"r", "e", "g">>>>, <<"A", "1">> >>,
         << <<<<"!", "r", "e", "g">>>>, <<"A", "2">> >>,
         << <<<<"i", "n", "s", "n">>, <<"!", "r", "e", "g">>>>, <<"A", "3">> >>,
         << <<<<"!", "i", "n", "s", "n">>, <<"r", "e", "g">>>>, <<"A", "4">> >>,
         << <<<<"!", ".", "*", "_", "c", "h", "0">>, <<"h", "a", "n", "g">>>>, <<"A", "5">> >> >>,
      << << <<<<"!", "h", "a", "n">>, <<"!", "h", "a", "n", "g">>>>, <<"B", "0">> >>,
         << <<<<"c", "o", "v", "e", "r">>, <<"!", "g", "_">>>>, <<"B", "1">> >>,
         << <<<<"!", "i", "n", "s", "n", "_", "a", "d", "d", "_", "c", "h", "0">>, <<"i", "n", "s", "n", "_", "a", "d", "d">>>>, <<"B", "0">> >> >> }

ConfigsH ==
    { [Cfg(<<"r", "v", "3", "2", "i">>, <<>>, 1, g, <<t_add>>, <<>>, <<>>, <<>>,
           << <<t_insn, 4>>, <<<<".", "*", "r", "e", "g">>, 1, 2>>, <<<<".", "*", "h", "a", "n", "g">>, 1, 2>>, <<<<".", "*", "c", "o", "v", "e", "r">>, 1, 2>> >>,
           <<>>, <<>>, CoverLines, "bmc")
         EXCEPT !.assume = a] :
        g \in {<<>>, <<<<"g">>>>}, a \in AssumeH }

Configs == ConfigsA \cup ConfigsB \cup ConfigsC \cup ConfigsD \cup ConfigsE \cup ConfigsF \cup ConfigsG \cup ConfigsH

(***************************************************************************)
(* The run                                                                 *)
(***************************************************************************)

\* the orders in which a set can be iterated
RECURSIVE Perms(_)
Perms(S) ==
    IF S = {} THEN {<<>>}
    ELSE UNION {{<<x>> \o p : p \in Perms(S \ {x})} : x \in S}

\* The iteration orders of isa_cfg.illegal_csrs, one for each result that
\* sorted(illegal_csrs, key=address) can give: the addresses ascending, the
\* triples of one address in any order.
RECURSIVE TieOrders(_, _)
TieOrders(addrs, S) ==
    IF addrs = <<>> THEN {<<>>}
    ELSE {p \o rest : p \in Perms({t \in S : t[1] = Head(addrs)}),
                      rest \in TieOrders(Tail(addrs), S)}

IllegalOrders(S) == TieOrders(sorted({t[1] : t \in S}), S)

Init ==
    /\ pc = "start"
    /\ config \in Configs
    /\ csrs = {} /\ custom_csrs = {} /\ illegal_csrs = {} /\ csr_tests = <<>>
    /\ set_iter = <<>> /\ grp_idx = 0 /\ todo = <<>> /\ hargs = <<>>
    /\ checks = <<>> /\ inst_checks = {} /\ cons_checks = {}
    /\ files = <<>> /\ writes = <<>> /\ makefile = <<>> /\ generated = <<>>
    /\ seen = {}
    /\ FnIdle

\* extract_options, add_all_csrs, init_hargs (lines 1001-1003)
Construct ==
    /\ pc = "start"
    /\ \E isa0 \in {add_all_csrs(config)} :
       IF isa0.error
       THEN /\ pc' = "aborted"
            /\ UNCHANGED <<csrs, custom_csrs, illegal_csrs, csr_tests, set_iter,
                           hargs, grp_idx>>
       ELSE /\ pc' = "insn_group"
            /\ csrs' = isa0.csrs
            /\ custom_csrs' = isa0.custom_csrs
            /\ illegal_csrs' = isa0.illegal_csrs
            /\ csr_tests' = isa0.csr_tests
            /\ \E ci \in Perms(isa0.custom_csrs) :
               \E ii \in IllegalOrders(isa0.illegal_csrs) :
                    set_iter' = [custom |-> ci, illegal |-> ii]
            /\ hargs' = init_hargs(config)
            /\ grp_idx' = 1
    /\ UNCHANGED <<config, todo, checks, inst_checks, cons_checks, files, writes,
                   makefile, generated, seen>>
    /\ UNCHANGED fnVars

\* the names of a call of check_insn
insn_names(c) == [check |-> insn_check_name(c), patterns |-> insn_depth_patterns(c)]

\* one call recorded in `seen`
Call(c, names, r, w) ==
    [fn |-> c.fn, cand |-> c, name |-> names.check, patterns |-> names.patterns,
     ret |-> r.ret, wrote |-> r.writes # w, error |-> r.error]

\* add_all_check_insn: entering the loops of the next group
InsnGroup ==
    /\ pc = "insn_group"
    /\ grp_idx <= Len(groups(config))
    /\ \E calls \in {insn_calls(config, groups(config)[grp_idx], csrs, set_iter.illegal)} :
       IF calls = <<>>
       THEN grp_idx' = grp_idx + 1 /\ UNCHANGED <<pc, todo>>
       ELSE todo' = calls /\ pc' = "insn" /\ UNCHANGED grp_idx
    /\ UNCHANGED <<config, csrs, custom_csrs, illegal_csrs, csr_tests, set_iter, hargs,
                   checks, inst_checks, cons_checks, files, writes, makefile, generated, seen>>
    /\ UNCHANGED fnVars

\* one iteration: checks.append(check_insn(...))
CheckInsn ==
    /\ pc = "insn"
    /\ todo # <<>>
    /\ \E c \in {Head(todo)} :
       \E r \in {check_insn(config, RunState(hargs, files, writes, csrs), c, set_iter.custom)} :
          /\ hargs' = r.hargs
          /\ files' = r.files
          /\ writes' = r.writes
          /\ seen' = seen \cup {Call(c, insn_names(c), r, writes)}
          /\ IF r.error
             THEN pc' = "aborted" /\ UNCHANGED <<checks, todo, grp_idx>>
             ELSE /\ checks' = Append(checks, r.ret)
                  /\ todo' = Tail(todo)
                  /\ IF Tail(todo) = <<>>
                     THEN pc' = "insn_group" /\ grp_idx' = grp_idx + 1
                     ELSE UNCHANGED <<pc, grp_idx>>
    /\ UNCHANGED <<config, csrs, custom_csrs, illegal_csrs, csr_tests, set_iter,
                   inst_checks, cons_checks, makefile, generated>>
    /\ UNCHANGED fnVars

\* add_all_check_insn returns set(filter(..., checks))
InsnReturn ==
    /\ pc = "insn_group"
    /\ grp_idx > Len(groups(config))
    /\ inst_checks' = checks_set(checks)
    /\ checks' = <<>>
    /\ pc' = "cons_group"
    /\ grp_idx' = 1
    /\ UNCHANGED <<config, csrs, custom_csrs, illegal_csrs, csr_tests, set_iter, todo,
                   hargs, cons_checks, files, writes, makefile, generated, seen>>
    /\ UNCHANGED fnVars

\* add_all_consistency_checks: entering the loops of the next group
ConsGroup ==
    /\ pc = "cons_group"
    /\ grp_idx <= Len(groups(config))
    /\ todo' = cons_calls(config, groups(config)[grp_idx], csrs, csr_tests)
    /\ pc' = "cons"
    /\ UNCHANGED <<config, csrs, custom_csrs, illegal_csrs, csr_tests, set_iter, hargs,
                   grp_idx, checks, inst_checks, cons_checks, files, writes, makefile, generated,
                   seen>>
    /\ UNCHANGED fnVars

\* one iteration: checks.append(check_cons(...))
CheckCons ==
    /\ pc = "cons"
    /\ todo # <<>>
    /\ \E c \in {Head(todo)} :
       \E r \in {check_cons(config, RunState(hargs, files, writes, csrs), c, set_iter.custom)} :
          /\ hargs' = r.hargs
          /\ files' = r.files
          /\ writes' = r.writes
          /\ csrs' = r.csrs
          /\ seen' = seen \cup {Call(c, cons_names(c), r, writes)}
          /\ IF r.error
             THEN pc' = "aborted" /\ UNCHANGED <<checks, todo, grp_idx>>
             ELSE /\ checks' = Append(checks, r.ret)
                  /\ todo' = Tail(todo)
                  /\ IF Tail(todo) = <<>>
                     THEN pc' = "cons_group" /\ grp_idx' = grp_idx + 1
                     ELSE UNCHANGED <<pc, grp_idx>>
    /\ UNCHANGED <<config, custom_csrs, illegal_csrs, csr_tests, set_iter,
                   inst_checks, cons_checks, makefile, generated>>
    /\ UNCHANGED fnVars

\* add_all_consistency_checks returns set(filter(..., checks))
ConsReturn ==
    /\ pc = "cons_group"
    /\ grp_idx > Len(groups(config))
    /\ cons_checks' = checks_set(checks)
    /\ checks' = <<>>
    /\ pc' = "makefile"
    /\ UNCHANGED <<config, csrs, custom_csrs, illegal_csrs, csr_tests, set_iter, todo,
                   hargs, grp_idx, inst_checks, files, writes, makefile, generated, seen>>
    /\ UNCHANGED fnVars

\* print(f"Generated {len(cons_checks) + len(inst_checks)} checks.")
generated_count(cons, inst) == Cardinality(cons) + Cardinality(inst)

\* create_makefile and the final report (lines 1008-1010)
CreateMakefile ==
    /\ pc = "makefile"
    /\ makefile' = create_makefile(config, cons_checks, inst_checks)
    /\ generated' = Some(generated_count(cons_checks, inst_checks))
    /\ pc' = "done"
    /\ UNCHANGED <<config, csrs, custom_csrs, illegal_csrs, csr_tests, set_iter, todo,
                   hargs, grp_idx, checks, inst_checks, cons_checks, files, writes, seen>>
    /\ UNCHANGED fnVars

Next ==
    \/ Construct
    \/ InsnGroup
    \/ CheckInsn
    \/ InsnReturn
    \/ ConsGroup
    \/ CheckCons
    \/ ConsReturn
    \/ CreateMakefile

Spec == Init /\ [][Next]_vars

(***************************************************************************)
(* The run as a function of the configuration and of the iteration orders  *)
(***************************************************************************)

\* one call applied to the accumulated result of the calls before it
apply_call(cfg, acc, c, custom_iter) ==
    IF ~acc.ok THEN acc
    ELSE LET st == [acc.st EXCEPT !.ret = None]
             r == IF c.fn = "check_insn" THEN check_insn(cfg, st, c, custom_iter)
                  ELSE check_cons(cfg, st, c, custom_iter)
         IN [st |-> r,
             names |-> acc.names \cup (IF r.ret # None THEN {r.ret[1]} ELSE {}),
             ok |-> ~r.error]

\* the calls lo..hi of a loop, in order
RECURSIVE run_calls(_, _, _, _, _, _)
run_calls(cfg, acc, calls, lo, hi, custom_iter) ==
    IF lo > hi THEN acc
    ELSE IF lo = hi THEN apply_call(cfg, acc, calls[lo], custom_iter)
    ELSE LET mid == (lo + hi) \div 2 IN
         run_calls(cfg, run_calls(cfg, acc, calls, lo, mid, custom_iter),
                   calls, mid + 1, hi, custom_iter)

\* add_all_check_insn over the groups from index g on
RECURSIVE run_insn_groups(_, _, _, _, _)
run_insn_groups(cfg, acc, g, custom_iter, ill_iter) ==
    IF g > Len(groups(cfg)) \/ ~acc.ok THEN acc
    ELSE LET calls == insn_calls(cfg, groups(cfg)[g], acc.st.csrs, ill_iter) IN
         run_insn_groups(cfg, run_calls(cfg, acc, calls, 1, Len(calls), custom_iter),
                         g + 1, custom_iter, ill_iter)

\* add_all_consistency_checks over the groups from index g on
RECURSIVE run_cons_groups(_, _, _, _, _)
run_cons_groups(cfg, acc, g, custom_iter, tests) ==
    IF g > Len(groups(cfg)) \/ ~acc.ok THEN acc
    ELSE LET calls == cons_calls(cfg, groups(cfg)[g], acc.st.csrs, tests) IN
         run_cons_groups(cfg, run_calls(cfg, acc, calls, 1, Len(calls), custom_iter),
                         g + 1, custom_iter, tests)

\* The files and the makefile a complete run leaves behind, when the sets
\* custom_csrs and illegal_csrs are iterated in the given orders.
run_output(cfg, custom_iter, ill_iter) ==
    LET isa0 == add_all_csrs(cfg)
        st0  == RunState(init_hargs(cfg), <<>>, <<>>, isa0.csrs)
        inst == run_insn_groups(cfg, [st |-> st0, names |-> {}, ok |-> TRUE], 1,
                                custom_iter, ill_iter)
        cons == run_cons_groups(cfg, [st |-> inst.st, names |-> {}, ok |-> inst.ok], 1,
                                custom_iter, isa0.csr_tests)
    IN [ok |-> cons.ok,
        files |-> cons.st.files,
        makefile |-> create_makefile(cfg, cons.names, inst.names)]

(***************************************************************************)
(* Properties of the run                                                   *)
(***************************************************************************)
Done == pc = "done"

Range(s) == {s[i] : i \in 1..Len(s)}

Occurrences(s, x) == Cardinality({i \in 1..Len(s) : s[i] = x})

\* the names the run has put out so far
OutputNames ==
    (DOMAIN files) \cup inst_checks \cup cons_checks
        \cup (IF Done THEN Range(makefile.all) ELSE {})

\* the call had no line of the depth section matching one of its names
Unmatched(c) == DepthMatching(config.depth, c.patterns) = {}

\* C1 as stated: the name of a candidate none of whose name variants is
\* full-matched by a depth rule is the name of no descriptor file, is in
\* neither returned check set and is not in the build file.
C1_AsStated ==
    \A c \in seen : Unmatched(c) => c.name \notin OutputNames

\* C1: a call none of whose name variants is full-matched by a depth rule
\* writes no file and returns no name, whatever the filter-checks rules say;
\* every name among the files, the returned sets and the build file is the
\* name of a call with a matching depth rule.  (The name of an unmatched
\* candidate is put out when another candidate of the same name is matched.)
C1_GatedCallsSilent ==
    /\ \A c \in seen : Unmatched(c) => c.ret = None /\ ~c.wrote
    /\ \A n \in OutputNames : \E c \in seen : c.name = n /\ ~Unmatched(c)

\* a run has ended in which a candidate without matching depth rule was
\* named by an explicit `+` rule of filter-checks and has no file
C1_Witness ==
    /\ Done
    /\ \E c \in seen :
        /\ Unmatched(c)
        /\ \E i \in 1..Len(config.filter_checks) :
              /\ WellFormedFilter(config.filter_checks[i])
              /\ config.filter_checks[i][1] = "+"
              /\ MatchHere(config.filter_checks[i][2], c.name)
        /\ c.name \notin DOMAIN files

\* C5: after a complete run, a name that was computed and written more than
\* once (by two groups, two families or two candidates of one family) occurs
\* exactly once in the default target of the build file, has exactly one rule
\* there, is in the output check set and names exactly one descriptor file.
C5_OneEntryPerName ==
    Done =>
        \A n \in DOMAIN writes :
            writes[n] >= 2 =>
                /\ Occurrences(makefile.all, n) = 1
                /\ Cardinality({i \in 1..Len(makefile.rules) :
                                    makefile.rules[i].target = n}) = 1
                /\ n \in inst_checks \cup cons_checks
                /\ n \in DOMAIN files

\* a run has ended in which one name was written twice: once by the
\* instruction family, once by the consistency family
C5_Witness ==
    /\ Done
    /\ \E n \in inst_checks \cap cons_checks : writes[n] >= 2

\* C6 as stated: the files and the build file of a complete run are the same
\* for every order in which the sets custom_csrs and illegal_csrs can be
\* iterated.
C6_Deterministic ==
    Done =>
        \A ci \in Perms(custom_csrs) : \A ii \in IllegalOrders(illegal_csrs) :
            LET o == run_output(config, ci, ii)
            IN o.files = files /\ o.makefile = makefile

\* the run computed step by step is the run computed as a function
RunOutputAgrees ==
    Done =>
        LET o == run_output(config, set_iter.custom, set_iter.illegal)
        IN o.ok /\ o.files = files /\ o.makefile = makefile

Constructed == pc \notin {"start", "aborted"}

\* the name a line of the csrs section declares: its first word
DeclaredName(line) == split_blank(line, 1)[1]

\* the CSR names the configuration itself declares (csrs and custom_csrs)
UserCsrs ==
    {DeclaredName(config.csrs[i]) :
        i \in {j \in 1..Len(config.csrs) : split_blank(config.csrs[j], 1) # <<>>}}
    \cup {split_blank(config.custom_csrs[i], 1)[3] :
        i \in {j \in 1..Len(config.custom_csrs) :
                  Len(split_blank(config.custom_csrs[j], 1)) >= 3}}

\* the triples the configuration itself declares illegal
UserIllegal ==
    {split_blank(config.illegal_csrs[i], 1) :
        i \in {j \in 1..Len(config.illegal_csrs) :
                  Len(split_blank(config.illegal_csrs[j], 1)) = 3}}

\* the privilege-gated table: name, required part of the isa, address
GatedTable ==
    { <<<<"m", "e", "d", "e", "l", "e", "g">>, <<"s">>, <<"3", "0", "2">>>>, <<<<"m", "i", "d", "e", "l", "e", "g">>, <<"s">>, <<"3", "0", "3">>>>,
      <<<<"m", "c", "o", "u", "n", "t", "e", "r", "e", "n">>, <<"u">>, <<"3", "0", "6">>>>, <<<<"m", "s", "t", "a", "t", "u", "s", "h">>, <<"3", "2">>, <<"3", "1", "0">>>>,
      <<<<"m", "t", "i", "n", "s", "t">>, <<"h">>, <<"3", "4", "A">>>>, <<<<"m", "t", "v", "a", "l", "2">>, <<"h">>, <<"3", "4", "B">>>>,
      <<<<"m", "e", "n", "v", "c", "f", "g">>, <<"u">>, <<"3", "0", "A">>>>, <<<<"m", "e", "n", "v", "c", "f", "g", "h">>, <<"u">>, <<"3", "1", "A">>>> }

FixedTriple(e) == <<e[3], <<"m">>, <<"r", "w">>>>

IsaHas(part) == \E k \in 0..(Len(config.isa) - Len(part)) :
                    SubSeq(config.isa, k + 1, k + Len(part)) = part

IndexLines(text, name, level) ==
    {i \in 1..Len(text.custom) :
        /\ text.custom[i].macro = "indices"
        /\ text.custom[i].csr = name
        /\ text.custom[i].part = level}

\* C8: every descriptor holds, for every custom CSR (name, address, levels)
\* and every level L of m, s, u, exactly one index macro line for (L, name);
\* its value is the address, as three upper-case hex digits, when L occurs in
\* levels and FFF otherwise.  The custom CSR at 0x7C0 with levels "mu" has
\* 7C0 for m and u and FFF for s.
C8_IndexMacros ==
    \A f \in DOMAIN files : \A cc \in custom_csrs : \A L \in {"m", "s", "u"} :
        LET lines == IndexLines(files[f], cc[1], L) IN
        /\ Cardinality(lines) = 1
        /\ \A i \in lines :
            /\ files[f].custom[i].index =
                  (IF \E k \in 1..Len(cc[3]) : cc[3][k] = L
                   THEN Hex03(cc[2]) ELSE <<"F", "F", "F">>)
            /\ cc[1] = <<"c", "s", "t">> =>
                  files[f].custom[i].index = (IF L = "s" THEN <<"F", "F", "F">> ELSE <<"7", "C", "0">>)

\* a descriptor was written under the custom CSR cst at 0x7C0 with levels mu
C8_Witness ==
    /\ <<<<"c", "s", "t">>, 1984, <<"m", "u">>>> \in custom_csrs
    /\ \E f \in DOMAIN files :
          /\ IndexLines(files[f], <<"c", "s", "t">>, "m") # {}
          /\ IndexLines(files[f], <<"c", "s", "t">>, "s") # {}

\* the positions of the sort section whose pattern full-matches a name
SortMatches(n) == {i \in 1..Len(config.sort) : MatchHere(config.sort[i], n)}

\* the names of the instruction checks of the default and the named groups
InsnCheckNames ==
    {insn_patterns(prefix(groups(config)[g]), t_insn, config.insns[i], k)[4] :
        g \in 1..Len(groups(config)), i \in 1..Len(config.insns),
        k \in 0..(config.nret - 1)}

\* in the default target, a check matching a sort pattern precedes every
\* check matching none, and checks are ranked by their first matching pattern
SortedFirst ==
    \A i, j \in 1..Len(makefile.all) :
        (i < j /\ SortMatches(makefile.all[j]) # {}) =>
            /\ SortMatches(makefile.all[i]) # {}
            /\ Min(SortMatches(makefile.all[i])) <= Min(SortMatches(makefile.all[j]))

\* among the checks matching no sort pattern, no instruction check precedes
\* a check that is not an instruction check
InsnChecksLast ==
    \A i, j \in 1..Len(makefile.all) :
        (/\ i < j
         /\ SortMatches(makefile.all[i]) = {}
         /\ SortMatches(makefile.all[j]) = {}
         /\ makefile.all[i] \in InsnCheckNames)
        => makefile.all[j] \in InsnCheckNames

\* C10 as stated: checks matching a sort pattern come first, ranked by the
\* position of the pattern; among the others every instruction check, of the
\* default group and of every named group, comes after every other check.
C10_AsStated == Done => SortedFirst /\ InsnChecksLast

\* the part of C10 about the sort patterns
C10_SortPatternsRank == Done => SortedFirst

\* the instruction checks of the default group
DefaultInsnCheckNames ==
    {insn_patterns(<<>>, t_insn, config.insns[i], k)[4] :
        i \in 1..Len(config.insns), k \in 0..(config.nret - 1)}

\* the part of C10 about the instruction checks, for the default group only
C10_DefaultInsnLast ==
    Done =>
        \A i, j \in 1..Len(makefile.all) :
            (/\ i < j
             /\ SortMatches(makefile.all[i]) = {}
             /\ SortMatches(makefile.all[j]) = {}
             /\ makefile.all[i] \in DefaultInsnCheckNames)
            => makefile.all[j] \in DefaultInsnCheckNames

\* the rules of the build file for one check name
RulesOf(n) == {i \in 1..Len(makefile.rules) : makefile.rules[i].target = n}

\* C11: after a complete run the targets of the build file are the names of
\* the descriptor files written in the run; each name is listed once in the
\* default target and has one rule, which depends on <check>/status and
\* whose command runs sby on <check>.sby, prefixed by $(shell pwd)/ iff
\* abspath is set.
C11_BuildFileComplete ==
    Done =>
        /\ Range(makefile.all) = DOMAIN files
        /\ {makefile.rules[i].target : i \in 1..Len(makefile.rules)} = DOMAIN files
        /\ \A n \in DOMAIN files :
            /\ Occurrences(makefile.all, n) = 1
            /\ Cardinality(RulesOf(n)) = 1
            /\ \A i \in RulesOf(n) :
                /\ makefile.rules[i].status = n \o <<"/", "s", "t", "a", "t", "u", "s">>
                /\ makefile.rules[i].command =
                      (IF config.abspath THEN <<"s", "b", "y", " ", "$", "(", "s", "h", "e", "l", "l", " ", "p", "w", "d", ")", "/">> ELSE <<"s", "b", "y", " ">>)
                          \o n \o <<".", "s", "b", "y">>

\* a run under abspath has ended with descriptor files written
C11_Witness ==
    /\ Done
    /\ config.abspath
    /\ Cardinality(DOMAIN files) >= 2

\* C12 as stated: the count printed at the end of a complete run is the
\* number of distinct check names: the number of descriptor files and the
\* number of targets of the build file.
C12_CountIsDistinct ==
    Done =>
        /\ generated = Some(Cardinality(DOMAIN files))
        /\ generated = Some(Len(makefile.all))

\* the printed count is the number of descriptor files whenever no name is
\* returned by both families
C12_CountWithoutCollision ==
    (Done /\ inst_checks \cap cons_checks = {}) =>
        generated = Some(Cardinality(DOMAIN files))

\* the illegal-access candidate of a group, a triple and a channel
IllCandidate(g, t, k) ==
    Candidate("check_insn", g, <<>>, t, Some(k), FALSE, TRUE, None, 0, None, None, FALSE)

\* a call for the candidate passed depth and filter resolution
Passed(c) ==
    \E s \in seen : /\ s.fn = c.fn
                    /\ s.name = insn_check_name(c)
                    /\ s.patterns = insn_depth_patterns(c)
                    /\ s.ret # None

\* the privilege and read/write defines of a triple, in print order
TripleDefines(t) ==
    LET has(s, ch) == \E i \in 1..Len(s) : s[i] = ch
        all == << <<"ILL_MMODE", has(t[2], "m")>>, <<"ILL_SMODE", has(t[2], "s")>>,
                  <<"ILL_UMODE", has(t[2], "u")>>, <<"ILL_READ", has(t[3], "r")>>,
                  <<"ILL_WRITE", has(t[3], "w")>> >>
    IN SelectSeq(all, LAMBDA e : e[2])

\* C13 as stated: after a complete run, two distinct illegal-CSR triples that
\* both pass depth and filter resolution in a group and channel have two
\* distinct checks, each with a descriptor carrying its own triple's defines,
\* also when the triples share an address.
C13_OnePerTriple ==
    Done =>
        \A g \in Range(groups(config)) : \A k \in 0..(config.nret - 1) :
        \A t1, t2 \in illegal_csrs :
            (/\ t1 # t2
             /\ Passed(IllCandidate(g, t1, k))
             /\ Passed(IllCandidate(g, t2, k)))
            => /\ insn_check_name(IllCandidate(g, t1, k))
                    # insn_check_name(IllCandidate(g, t2, k))
               /\ [i \in 1..Len(TripleDefines(t1)) |-> TripleDefines(t1)[i][1]]
                    = files[insn_check_name(IllCandidate(g, t1, k))].ill_defines
               /\ [i \in 1..Len(TripleDefines(t2)) |-> TripleDefines(t2)[i][1]]
                    = files[insn_check_name(IllCandidate(g, t2, k))].ill_defines

\* the same for triples that are alone at their address
C13_OnePerAddress ==
    Done =>
        \A g \in Range(groups(config)) : \A k \in 0..(config.nret - 1) :
        \A t1, t2 \in {t \in illegal_csrs : \A u \in illegal_csrs : u[1] = t[1] => u = t} :
            (/\ t1 # t2
             /\ Passed(IllCandidate(g, t1, k))
             /\ Passed(IllCandidate(g, t2, k)))
            => /\ insn_check_name(IllCandidate(g, t1, k))
                    # insn_check_name(IllCandidate(g, t2, k))
               /\ [i \in 1..Len(TripleDefines(t1)) |-> TripleDefines(t1)[i][1]]
                    = files[insn_check_name(IllCandidate(g, t1, k))].ill_defines

(***************************************************************************)
(* C14: CSR tests without a value                                          *)
(***************************************************************************)

\* the calls of check_cons for a CSR test
CsrTestCalls == {s \in seen : s.fn = "check_cons" /\ s.cand.csr_mode /\ s.cand.csr_test # None}

\* the token t is a const, hpm or _mask test without `=value`
MissingValue(t) ==
    /\ Find(t, <<"=">>) < 0
    /\ StartsWith(t, <<"c", "o", "n", "s", "t">>) \/ StartsWith(t, <<"h", "p", "m">>) \/ Find(t, <<"_", "m", "a", "s", "k">>) >= 0

\* the values the descriptor named n defines for the macro key
CsrcValues(n, key) == {d[2] : d \in {e \in Range(files[n].csrc_defines) : e[1] = key}}

\* C14 as stated: every call of check_cons for a const, hpm or _mask test
\* without a value aborts the run and writes no descriptor.
C14_AsStated ==
    \A s \in CsrTestCalls :
        MissingValue(s.cand.csr_test[1]) => s.error /\ ~s.wrote

\* C14: of the CSR tests without a value only a _mask test aborts the run
\* (no descriptor written); a const test is rendered with the constant
\* rdata_shadow; an hpm test is rendered with the counter define and without
\* the event define.
C14_OnlyMaskIsFatal ==
    \A s \in CsrTestCalls :
        LET t == s.cand.csr_test[1] IN
        MissingValue(t) =>
            IF Find(t, <<"_", "m", "a", "s", "k">>) >= 0 THEN s.error /\ ~s.wrote
            ELSE /\ ~s.error
                 /\ s.wrote =>
                      IF StartsWith(t, <<"c", "o", "n", "s", "t">>)
                      THEN CsrcValues(s.name, "CSRC_CONSTVAL") = {<<"r", "d", "a", "t", "a", "_", "s", "h", "a", "d", "o", "w">>}
                      ELSE /\ CsrcValues(s.name, "CSRC_HPMEVENT") = {}
                           /\ CsrcValues(s.name, "CSRC_HPMCOUNTER") # {}

\* a run that rendered a const test and an hpm test without value and then
\* aborted at a _mask test without value
C14_Witness ==
    /\ pc = "aborted"
    /\ \E s \in CsrTestCalls : s.cand.csr_test[1] = <<"c", "o", "n", "s", "t">> /\ s.wrote
    /\ \E s \in CsrTestCalls : s.cand.csr_test[1] = <<"h", "p", "m">> /\ s.wrote
    /\ \E s \in CsrTestCalls : s.cand.csr_test[1] = <<"z", "e", "r", "o", "_", "m", "a", "s", "k">> /\ s.error

(***************************************************************************)
(* C15: `@name@` tokens of user-supplied lines                             *)
(***************************************************************************)

\* the names of the `@name@` tokens of a line
RECURSIVE TokenNames(_)
TokenNames(line) ==
    LET starts == {i \in 1..Len(line) : TokenEnd(line, i) > 0}
    IN IF starts = {} THEN {}
       ELSE LET i == Min(starts)
                j == TokenEnd(line, i)
            IN {SubSeq(line, i + 1, j - 1)} \cup TokenNames(SubSeq(line, j + 1, Len(line)))

ScriptTokens ==
    UNION {TokenNames(config.script_defines[i]) : i \in 1..Len(config.script_defines)}

\* the parameters a check of the candidate's kind sets itself
KindKeys(c) ==
    IF c.fn = "check_insn"
    THEN {"insn", "checkch", "channel", "depth", "depth_plus", "skip"}
    ELSE {"check", "start", "depth", "depth_plus", "skip", "checkch", "xmode"}
         \cup (IF c.chanidx # None THEN {"channel"} ELSE {})

BoundNames(c) == {HargNames[k] : k \in (DOMAIN init_hargs(config)) \cup KindKeys(c)}

\* C15 as stated: a call that starts a descriptor whose script-defines lines
\* hold a token for a parameter that the kind of the check does not set
\* aborts the run; the token is never filled from an earlier check.
C15_UnboundIsFatal ==
    \A s \in seen :
        (s.wrote /\ ScriptTokens \ BoundNames(s.cand) # {}) => s.error

\* a token that names no parameter at all aborts the first call that renders
C15_UnknownNameAborts ==
    \A s \in seen :
        (s.wrote /\ ScriptTokens \ {HargNames[k] : k \in DOMAIN HargNames} # {}) => s.error

\* the hang check rendered with the instruction of the last instruction check
C15_StaleInsn ==
    /\ <<"h", "a", "n", "g">> \in DOMAIN files
    /\ files[<<"h", "a", "n", "g">>].script_defines = << <<"r", "e", "a", "d", " ", "-", "d", "e", "f", "i", "n", "e", " ", "I", "=", "a", "d", "d">> >>
    /\ ~files[<<"h", "a", "n", "g">>].truncated

\* the hang check rendered with the channel of the candidate before it
C15_StaleChannel ==
    /\ <<"h", "a", "n", "g">> \in DOMAIN files
    /\ files[<<"h", "a", "n", "g">>].script_defines = << <<"r", "e", "a", "d", " ", "-", "d", "e", "f", "i", "n", "e", " ", "C", "=", "0">> >>

\* a token no check before has set aborts the run
C15_Aborted ==
    /\ pc = "aborted"
    /\ <<"h", "a", "n", "g">> \in DOMAIN files
    /\ files[<<"h", "a", "n", "g">>].truncated
    /\ <<"i", "n", "s", "n">> \in ScriptTokens

(***************************************************************************)
(* C16: the lines of assume_stmts                                          *)
(***************************************************************************)

Negated(tag) == StartsWith(tag, <<"!">>)

\* the positions of the tags whose pattern matches the check name
MatchingTags(tags, n) ==
    {j \in 1..Len(tags) :
        re_match(IF Negated(tags[j]) THEN Tail(tags[j]) ELSE tags[j], n)}

\* the lines of those entries of the assume section that satisfy Keep
Kept(Keep(_), lines) ==
    [i \in 1..Len(SelectSeq(lines, Keep)) |-> SelectSeq(lines, Keep)[i][2]]

\* the descriptors written in full
Rendered == {n \in DOMAIN files : ~files[n].truncated}

\* C16 as stated: the flag starts true and flips only at the first matching
\* tag, so a line is in assume_stmts iff none of its tags matches the check.
C16_AsStated ==
    config.assume # <<>> =>
        \A n \in Rendered :
            files[n].assume_stmts =
                Some(Kept(LAMBDA e : MatchingTags(e[1], n) = {}, config.assume))

\* C16: the scan stops at the first matching tag; a line is in assume_stmts
\* iff that tag carries `!`, or, when no tag matches, iff the tag list is
\* empty or its last tag carries no `!`.  Both renderers decide alike.
C16_TagPolarityDecides ==
    config.assume # <<>> =>
        \A n \in Rendered :
            files[n].assume_stmts =
                Some(Kept(LAMBDA e :
                        IF MatchingTags(e[1], n) = {}
                        THEN e[1] = <<>> \/ ~Negated(e[1][Len(e[1])])
                        ELSE Negated(e[1][Min(MatchingTags(e[1], n))]),
                     config.assume))

\* a run that rendered an instruction check and consistency checks from the
\* tagged lines: reg_ch0 keeps the line of `!reg`, hang loses it
C16_Witness ==
    /\ Done
    /\ config.assume # <<>>
    /\ {<<"i", "n", "s", "n", "_", "a", "d", "d", "_", "c", "h", "0">>, <<"r", "e", "g", "_", "c", "h", "0">>, <<"h", "a", "n", "g">>} \subseteq Rendered
    /\ files[<<"i", "n", "s", "n", "_", "a", "d", "d", "_", "c", "h", "0">>].renderer = "check_insn"
    /\ files[<<"r", "e", "g", "_", "c", "h", "0">>].renderer = "check_cons"
    /\ <<"A", "2">> \in Range(files[<<"r", "e", "g", "_", "c", "h", "0">>].assume_stmts[1])
    /\ <<"A", "2">> \notin Range(files[<<"h", "a", "n", "g">>].assume_stmts[1])
    /\ <<"A", "2">> \notin Range(files[<<"i", "n", "s", "n", "_", "a", "d", "d", "_", "c", "h", "0">>].assume_stmts[1])

(***************************************************************************)
(* C17: the catalog of consistency checks                                  *)
(***************************************************************************)

\* every candidate of the run found a depth rule and no filter rule exists
AllPass ==
    /\ Done
    /\ config.filter_checks = <<>>
    /\ \A s \in seen : get_depth_cfg(config, s.patterns) # None

\* the candidates of check_cons, other than the per-CSR ones, that group g
\* yielded on channel ch (None: without channel)
Yielded(g, ch) ==
    {s.cand : s \in {x \in seen : /\ x.fn = "check_cons" /\ ~x.cand.csr_mode
                                  /\ x.cand.grp = g /\ x.cand.chanidx = ch
                                  /\ x.ret # None /\ x.name \in cons_checks}}

TenChecks ==
    {<<"r", "e", "g">>, <<"p", "c", "_", "f", "w", "d">>, <<"p", "c", "_", "b", "w", "d">>, <<"l", "i", "v", "e", "n", "e", "s", "s">>, <<"u", "n", "i", "q", "u", "e">>, <<"c", "a", "u", "s", "a", "l">>, <<"c", "a", "u", "s", "a", "l", "_", "m", "e", "m">>,
     <<"c", "a", "u", "s", "a", "l", "_", "i", "o">>, <<"i", "l", "l">>, <<"f", "a", "u", "l", "t">>}

NineBusChecks ==
    {<<"b", "u", "s", "_", "i", "m", "e", "m">>, <<"b", "u", "s", "_", "i", "m", "e", "m", "_", "f", "a", "u", "l", "t">>, <<"b", "u", "s", "_", "d", "m", "e", "m">>, <<"b", "u", "s", "_", "d", "m", "e", "m", "_", "f", "a", "u", "l", "t">>, <<"b", "u", "s", "_", "d", "m", "e", "m", "_", "i", "o", "_", "r", "e", "a", "d">>,
     <<"b", "u", "s", "_", "d", "m", "e", "m", "_", "i", "o", "_", "r", "e", "a", "d", "_", "f", "a", "u", "l", "t">>, <<"b", "u", "s", "_", "d", "m", "e", "m", "_", "i", "o", "_", "w", "r", "i", "t", "e">>, <<"b", "u", "s", "_", "d", "m", "e", "m", "_", "i", "o", "_", "w", "r", "i", "t", "e", "_", "f", "a", "u", "l", "t">>,
     <<"b", "u", "s", "_", "d", "m", "e", "m", "_", "i", "o", "_", "o", "r", "d", "e", "r">>}

\* C17 as stated: with a depth rule for every candidate and no filter, each
\* group and channel yields the ten checks and exactly eight bus checks, and
\* each group yields hang and cover.
C17_AsStated ==
    AllPass =>
        \A g \in Range(groups(config)) :
            /\ \A k \in 0..(config.nret - 1) :
                  /\ {c.check : c \in {d \in Yielded(g, Some(k)) : ~d.bus_mode}} = TenChecks
                  /\ Cardinality({c.check : c \in {d \in Yielded(g, Some(k)) : d.bus_mode}}) = 8
            /\ {c.check : c \in Yielded(g, None)} = {<<"h", "a", "n", "g">>, <<"c", "o", "v", "e", "r">>}

\* C17: with a depth rule for every candidate and no filter, each group and
\* channel yields the ten checks reg .. fault and the nine bus checks, and
\* each group yields the two checks without channel, hang and cover.
C17_NineBusChecks ==
    AllPass =>
        \A g \in Range(groups(config)) :
            /\ \A k \in 0..(config.nret - 1) :
                  /\ {c.check : c \in {d \in Yielded(g, Some(k)) : ~d.bus_mode}} = TenChecks
                  /\ {c.check : c \in {d \in Yielded(g, Some(k)) : d.bus_mode}} = NineBusChecks
            /\ {c.check : c \in Yielded(g, None)} = {<<"h", "a", "n", "g">>, <<"c", "o", "v", "e", "r">>}

\* a complete run of two groups in which every candidate passed
C17_Witness ==
    /\ AllPass
    /\ Len(groups(config)) = 2
    /\ <<"g", "_", "b", "u", "s", "_", "d", "m", "e", "m", "_", "i", "o", "_", "o", "r", "d", "e", "r", "_", "c", "h", "0">> \in cons_checks
    /\ <<"b", "u", "s", "_", "d", "m", "e", "m", "_", "i", "o", "_", "o", "r", "d", "e", "r", "_", "c", "h", "0">> \in cons_checks

\* the same with two channels
C17_TwoChannels ==
    /\ AllPass
    /\ config.nret = 2
    /\ <<"b", "u", "s", "_", "d", "m", "e", "m", "_", "i", "o", "_", "o", "r", "d", "e", "r", "_", "c", "h", "1">> \in cons_checks

(***************************************************************************)
(* C18: the order of the CSR-driven define blocks                          *)
(***************************************************************************)

\* the per-CSR defines of the descriptor f follow the order of the CSR names
CsrDefinesInNameOrder(f) ==
    \E names \in {[i \in 1..Len(files[f].csr_defines) |->
                     {a \in csrs : upper(a) = files[f].csr_defines[i]}]} :
        \A i \in 1..Len(names) :
            /\ names[i] # {}
            /\ i < Len(names) => \A a \in names[i] : \A b \in names[i + 1] : StrLess(a, b)

\* within each macro block of the descriptor f the custom CSRs follow the
\* order of their names
CustomInNameOrder(f) ==
    \A i, j \in 1..Len(files[f].custom) :
        (i < j /\ files[f].custom[i].macro = files[f].custom[j].macro)
            => StrLeq(files[f].custom[i].csr, files[f].custom[j].csr)

\* C18 as stated: in every descriptor the per-CSR defines and the custom-CSR
\* macro lines list the CSRs in lexicographic order of their names.
C18_AllBlocksInNameOrder ==
    \A f \in DOMAIN files : CsrDefinesInNameOrder(f) /\ CustomInNameOrder(f)

\* the per-CSR defines alone are in name order in every descriptor
C18_CsrDefinesInNameOrder ==
    \A f \in DOMAIN files : CsrDefinesInNameOrder(f)

\* a descriptor with two per-CSR defines and the custom CSRs out of order
C18_CustomOutOfOrder ==
    \E f \in DOMAIN files : Len(files[f].csr_defines) >= 2 /\ ~CustomInNameOrder(f)

(***************************************************************************)
(* C19: dropped candidates                                                 *)
(***************************************************************************)

\* the step processes a candidate that is dropped: the call returns None
\* without an error
DroppedStep ==
    /\ pc \in {"insn", "cons"}
    /\ pc' # "aborted"
    /\ Len(checks') = Len(checks) + 1
    /\ checks'[Len(checks')] = None

\* C19 as stated: processing a dropped candidate leaves the csrs set of the
\* ISA configuration and the descriptors unchanged.
C19_DroppedHasNoEffect ==
    [][DroppedStep => (csrs' = csrs /\ files' = files /\ writes' = writes)]_vars

\* a dropped candidate writes no descriptor
C19_DroppedWritesNothing ==
    [][DroppedStep => (files' = files /\ writes' = writes)]_vars

\* a dropped candidate that is no hpm test leaves the csrs set alone
C19_OnlyHpmAddsCsr ==
    [][(DroppedStep /\ csrs' # csrs) =>
          /\ pc = "cons"
          /\ Head(todo).csr_test # None
          /\ StartsWith(Head(todo).csr_test[1], <<"h", "p", "m">>)]_vars

\* the counter of a dropped hpm candidate is defined in a later descriptor
\* and is not a CSR the configuration declares
C19_CounterLeaks ==
    /\ Done
    /\ <<"m", "h", "p", "m", "c", "o", "u", "n", "t", "e", "r", "3">> \in csrs
    /\ <<"c", "s", "r", "c", "_", "h", "p", "m", "_", "m", "h", "p", "m", "e", "v", "e", "n", "t", "3", "_", "c", "h", "0">> \notin DOMAIN files
    /\ <<"c", "s", "r", "c", "_", "a", "n", "y", "_", "x", "_", "c", "h", "0">> \in DOMAIN files
    /\ \E i \in 1..Len(files[<<"c", "s", "r", "c", "_", "a", "n", "y", "_", "x", "_", "c", "h", "0">>].csr_defines) :
          files[<<"c", "s", "r", "c", "_", "a", "n", "y", "_", "x", "_", "c", "h", "0">>].csr_defines[i] = <<"M", "H", "P", "M", "C", "O", "U", "N", "T", "E", "R", "3">>

(***************************************************************************)
(* C20: the cover check                                                    *)
(***************************************************************************)

\* the name of the cover check of group g
CoverName(g) == prefix(g) \o <<"c", "o", "v", "e", "r">>

\* the cover checks of the groups that were rendered in full
CoverFiles == {CoverName(g) : g \in Range(groups(config))} \cap Rendered

\* C20 as stated: the descriptor of the cover check of every group has proof
\* mode cover whatever the configured mode is, and the descriptors with a
\* cover_stmts section are exactly those of the cover checks.
C20_CoverModeEveryGroup ==
    /\ \A n \in CoverFiles : files[n].mode = "cover"
    /\ \A n \in Rendered : (files[n].cover_stmts # None) <=> (n \in CoverFiles)

\* the descriptors with a cover_stmts section are exactly those of the cover
\* checks; the cover check of the default group has proof mode cover
C20_DefaultGroupOnly ==
    /\ <<"c", "o", "v", "e", "r">> \in Rendered => files[<<"c", "o", "v", "e", "r">>].mode = "cover"
    /\ \A n \in Rendered : (files[n].cover_stmts # None) <=> (n \in CoverFiles)

\* the cover check of the group g rendered with the configured mode bmc
C20_NamedGroupKeepsMode ==
    /\ <<"g", "_", "c", "o", "v", "e", "r">> \in Rendered
    /\ files[<<"g", "_", "c", "o", "v", "e", "r">>].cover_stmts # None
    /\ files[<<"g", "_", "c", "o", "v", "e", "r">>].mode = "bmc"
    /\ files[<<"c", "o", "v", "e", "r">>].mode = "cover"

====
